---- MODULE Spec2Model ----
(***************************************************************************)
(* CAPythonsBook: the field validators, Record, AddressBook, NotesBook,    *)
(* the command handlers of app/services.py and the REPL loop of            *)
(* presentation/cli.py.                                                    *)
(*                                                                         *)
(* A Python str is a sequence of one-character strings, so that the        *)
(* regular expressions, str.split, str.startswith, int() and               *)
(* strptime/strftime are computed on the characters.                       *)
(***************************************************************************)
EXTENDS Integers, Sequences, FiniteSets, TLC

\* ------------------------------------------------------------------ bounds
\* commands read by one run of the REPL loop
MaxCmds == 2
\* method calls made by one run of the direct-call specification
MaxCalls == 2
\* uuid4 values handed out in one run
MaxIds == 3

\* --------------------------------------------------------------- characters
Digits == {"0", "1", "2", "3", "4", "5", "6", "7", "8", "9"}

Lower == {"a", "b", "c", "d", "e", "f", "g", "h", "i", "j", "k", "l", "m",
          "n", "o", "p", "q", "r", "s", "t", "u", "v", "w", "x", "y", "z"}

Upper == {"A", "B", "C", "D", "E", "F", "G", "H", "I", "J", "K", "L", "M",
          "N", "O", "P", "Q", "R", "S", "T", "U", "V", "W", "X", "Y", "Z"}

DigitVal(c) ==
  CASE c = "0" -> 0 [] c = "1" -> 1 [] c = "2" -> 2 [] c = "3" -> 3
    [] c = "4" -> 4 [] c = "5" -> 5 [] c = "6" -> 6 [] c = "7" -> 7
    [] c = "8" -> 8 [] c = "9" -> 9

DigitChr(n) ==
  CASE n = 0 -> "0" [] n = 1 -> "1" [] n = 2 -> "2" [] n = 3 -> "3"
    [] n = 4 -> "4" [] n = 5 -> "5" [] n = 6 -> "6" [] n = 7 -> "7"
    [] n = 8 -> "8" [] n = 9 -> "9"

\* every character of s is in the class cls
AllIn(s, cls) == \A i \in 1..Len(s) : s[i] \in cls

\* index of the first occurrence of c in s, 0 when there is none
FirstIndex(s, c) ==
  IF \E i \in 1..Len(s) : s[i] = c
    THEN CHOOSE i \in 1..Len(s) : s[i] = c /\ \A j \in 1..(i - 1) : s[j] # c
    ELSE 0

\* a pattern's "$" matches at the end of the string and before one final newline
BeforeDollar(s) ==
  IF Len(s) > 0 /\ s[Len(s)] = "\n" THEN {s, SubSeq(s, 1, Len(s) - 1)} ELSE {s}

\* the value of a string of decimal digits
RECURSIVE DecVal(_)
DecVal(s) ==
  IF s = <<>> THEN 0 ELSE 10 * DecVal(SubSeq(s, 1, Len(s) - 1)) + DigitVal(s[Len(s)])

\* str.split("."): the fields of s between the separator sep
RECURSIVE SplitOn(_, _)
SplitOn(s, sep) ==
  LET i == FirstIndex(s, sep) IN
  IF i = 0 THEN <<s>>
  ELSE <<SubSeq(s, 1, i - 1)>> \o SplitOn(SubSeq(s, i + 1, Len(s)), sep)

\* str.split(): the maximal runs of non-blank characters
RECURSIVE SplitBlank(_)
SplitBlank(s) ==
  IF s = <<>> THEN <<>>
  ELSE IF s[1] = " " THEN SplitBlank(Tail(s))
  ELSE LET i == FirstIndex(s, " ") IN
       IF i = 0 THEN <<s>>
       ELSE <<SubSeq(s, 1, i - 1)>> \o SplitBlank(SubSeq(s, i + 1, Len(s)))

\* ------------------------------------------------------------------- fields
\* Field.__init__: the wrapper around the validated string
Field(value) == [value |-> value]

\* Field.to_dict
Field_to_dict(f) == f.value

\* Field.__eq__
Field_eq(f, g) == f.value = g.value

\* Name.__init__ accepts every non-empty string
Name_ok(value) == value # <<>>

\* a character outside ASCII is one element of a string, written by its code
\* point: ARABIC-INDIC DIGIT THREE, a decimal digit, and LATIN SMALL LETTER E
\* WITH ACUTE, a letter
chArabicThree == "U+0663"

chEAcute == "U+00E9"

\* what \d matches in a str pattern: every Unicode decimal digit
DecimalDigits == Digits \cup {chArabicThree}

\* a pattern that asks for 9 to 15 digits
Phone_ok_short(value) ==
  \E s \in BeforeDollar(value) :
    LET t == IF Len(s) > 0 /\ s[1] = "+" THEN Tail(s) ELSE s IN
    /\ Len(t) >= 9
    /\ Len(t) <= 15
    /\ t[1] \in Digits \ {"0"}
    /\ AllIn(Tail(t), DecimalDigits)

\* Phone.__init__: ^\+?[1-9]\d{9,14}$
Phone_ok(value) ==
  \E s \in BeforeDollar(value) :
    LET t == IF Len(s) > 0 /\ s[1] = "+" THEN Tail(s) ELSE s IN
    /\ Len(t) >= 10
    /\ Len(t) <= 15
    /\ t[1] \in Digits \ {"0"}
    /\ AllIn(Tail(t), DecimalDigits)

EmailLocal == Lower \cup Upper \cup Digits \cup {"_", ".", "+", "-"}

EmailDomain == Lower \cup Upper \cup Digits \cup {"-"}

EmailSuffix == Lower \cup Upper \cup Digits \cup {"-", "."}

\* a pattern whose domain label takes the characters of the local part
Email_ok_local_domain(value) ==
  \E s \in BeforeDollar(value) :
    LET at == FirstIndex(s, "@")
        rest == SubSeq(s, at + 1, Len(s))
        dot == FirstIndex(rest, ".")
    IN /\ at > 1
       /\ AllIn(SubSeq(s, 1, at - 1), EmailLocal)
       /\ dot > 1
       /\ AllIn(SubSeq(rest, 1, dot - 1), EmailLocal \ {"."})
       /\ dot < Len(rest)
       /\ AllIn(SubSeq(rest, dot + 1, Len(rest)), EmailSuffix)

\* Email.EMAIL_REGEX: ^[a-zA-Z0-9_.+-]+@[a-zA-Z0-9-]+\.[a-zA-Z0-9-.]+$
Email_ok(value) ==
  \E s \in BeforeDollar(value) :
    LET at == FirstIndex(s, "@")
        rest == SubSeq(s, at + 1, Len(s))
        dot == FirstIndex(rest, ".")
    IN /\ at > 1
       /\ AllIn(SubSeq(s, 1, at - 1), EmailLocal)
       /\ dot > 1
       /\ AllIn(SubSeq(rest, 1, dot - 1), EmailDomain)
       /\ dot < Len(rest)
       /\ AllIn(SubSeq(rest, dot + 1, Len(rest)), EmailSuffix)

\* ------------------------------------------------------------------- dates
IsLeap(y) == (y % 4 = 0) /\ ((y % 100 # 0) \/ (y % 400 = 0))

DaysInMonth(y, m) ==
  IF m = 2 THEN (IF IsLeap(y) THEN 29 ELSE 28)
  ELSE IF m \in {4, 6, 9, 11} THEN 30 ELSE 31

\* datetime.date(y, m, d) exists
ValidDate(y, m, d) ==
  /\ y >= 1
  /\ y <= 9999
  /\ m \in 1..12
  /\ d >= 1
  /\ d <= DaysInMonth(y, m)

Date(y, m, d) == [year |-> y, month |-> m, day |-> d]

RECURSIVE DaysBeforeMonth(_, _)
DaysBeforeMonth(y, m) ==
  IF m = 1 THEN 0 ELSE DaysBeforeMonth(y, m - 1) + DaysInMonth(y, m - 1)

\* date.toordinal(): 1 is 0001-01-01
ToOrdinal(dt) ==
  LET y1 == dt.year - 1 IN
  365 * y1 + (y1 \div 4) - (y1 \div 100) + (y1 \div 400)
    + DaysBeforeMonth(dt.year, dt.month) + dt.day

\* date.weekday(): Monday is 0, Sunday is 6
Weekday(dt) == (ToOrdinal(dt) + 6) % 7

\* date + timedelta(days=n), n >= 0
RECURSIVE AddDays(_, _)
AddDays(dt, n) ==
  IF n = 0 THEN dt
  ELSE IF dt.day < DaysInMonth(dt.year, dt.month)
    THEN AddDays(Date(dt.year, dt.month, dt.day + 1), n - 1)
  ELSE IF dt.month < 12
    THEN AddDays(Date(dt.year, dt.month + 1, 1), n - 1)
  ELSE AddDays(Date(dt.year + 1, 1, 1), n - 1)

\* date < date
DateLess(a, b) == ToOrdinal(a) < ToOrdinal(b)

\* a replace(year=y) that never raises
Replace_ok_any(dt, y) == TRUE

\* date.replace(year=y) raises ValueError when the day does not exist in y
Replace_ok(dt, y) == ValidDate(y, dt.month, dt.day)

Replace_year(dt, y) == Date(y, dt.month, dt.day)

\* the three "."-separated fields strptime reads with "%d.%m.%Y"
Strptime_shape(value) ==
  LET p == SplitOn(value, ".") IN
  /\ Len(p) = 3
  /\ Len(p[1]) \in {1, 2}
  /\ Len(p[2]) \in {1, 2}
  /\ Len(p[3]) = 4
  /\ AllIn(p[1] \o p[2] \o p[3], Digits)

\* datetime.strptime(value, "%d.%m.%Y") succeeds
Strptime_ok(value) ==
  /\ Strptime_shape(value)
  /\ LET p == SplitOn(value, ".") IN
     ValidDate(DecVal(p[3]), DecVal(p[2]), DecVal(p[1]))

\* datetime.strptime(value, "%d.%m.%Y").date()
Strptime(value) ==
  LET p == SplitOn(value, ".") IN Date(DecVal(p[3]), DecVal(p[2]), DecVal(p[1]))

TwoDigits(n) == <<DigitChr(n \div 10), DigitChr(n % 10)>>

FourDigits(n) ==
  <<DigitChr(n \div 1000), DigitChr((n \div 100) % 10),
    DigitChr((n \div 10) % 10), DigitChr(n % 10)>>

\* date.strftime("%d.%m.%Y")
Strftime(dt) ==
  TwoDigits(dt.day) \o <<".">> \o TwoDigits(dt.month) \o <<".">> \o FourDigits(dt.year)

\* Birthday.__init__ accepts what strptime parses
Birthday_ok(value) == Strptime_ok(value)

\* ------------------------------------------------------------ more strings
\* sep.join(parts)
RECURSIVE Join(_, _)
Join(parts, sep) ==
  IF parts = <<>> THEN <<>>
  ELSE IF Len(parts) = 1 THEN parts[1]
  ELSE parts[1] \o sep \o Join(Tail(parts), sep)

\* " ".join(parts)
JoinBlank(parts) == Join(parts, <<" ">>)

\* sub in s
Contains(s, sub) ==
  \E i \in 0..(Len(s) - Len(sub)) : SubSeq(s, i + 1, i + Len(sub)) = sub

LowerChr(c) ==
  CASE c = "A" -> "a" [] c = "B" -> "b" [] c = "C" -> "c" [] c = "D" -> "d"
    [] c = "E" -> "e" [] c = "F" -> "f" [] c = "G" -> "g" [] c = "H" -> "h"
    [] c = "I" -> "i" [] c = "J" -> "j" [] c = "K" -> "k" [] c = "L" -> "l"
    [] c = "M" -> "m" [] c = "N" -> "n" [] c = "O" -> "o" [] c = "P" -> "p"
    [] c = "Q" -> "q" [] c = "R" -> "r" [] c = "S" -> "s" [] c = "T" -> "t"
    [] c = "U" -> "u" [] c = "V" -> "v" [] c = "W" -> "w" [] c = "X" -> "x"
    [] c = "Y" -> "y" [] c = "Z" -> "z" [] OTHER -> c

\* str.lower()
LowerStr(s) == [i \in 1..Len(s) |-> LowerChr(s[i])]

\* str.strip() of blanks and newlines
RECURSIVE Strip(_)
Strip(s) ==
  IF s # <<>> /\ s[1] \in {" ", "\n"} THEN Strip(Tail(s))
  ELSE IF s # <<>> /\ s[Len(s)] \in {" ", "\n"} THEN Strip(SubSeq(s, 1, Len(s) - 1))
  ELSE s

\* int(s) succeeds: blanks around an optional sign and decimal digits
Int_ok(s) ==
  LET t == IF Len(Strip(s)) > 0 /\ Strip(s)[1] \in {"+", "-"} THEN Tail(Strip(s)) ELSE Strip(s) IN
  Len(t) > 0 /\ AllIn(t, Digits)

\* int(s)
Int_val(s) ==
  IF Strip(s)[1] = "-" THEN 0 - DecVal(Tail(Strip(s)))
  ELSE IF Strip(s)[1] = "+" THEN DecVal(Tail(Strip(s))) ELSE DecVal(Strip(s))

\* the elements of a sequence
Range(s) == {s[i] : i \in 1..Len(s)}

\* ------------------------------------------------------------------ Record
\* a dict as a TLA+ function: d[k] = v added or replaced
DictSet(d, k, v) == [x \in (DOMAIN d) \cup {k} |-> IF x = k THEN v ELSE d[x]]

\* del d[k]
DictDel(d, k) == [x \in (DOMAIN d) \ {k} |-> d[x]]

\* Record.__init__(name, **fields) with the uuid4 value id
Record(id, name, fields) ==
  [id |-> id, name |-> name,
   fields |-> [x \in {"name"} \cup DOMAIN fields |->
                 IF x \in DOMAIN fields THEN fields[x] ELSE name]]

NoFields == [x \in {} |-> <<>>]

\* Record.add_field
add_field(rec, field_name, field) ==
  [rec EXCEPT !.fields = DictSet(@, field_name, field)]

\* Record.remove_field
remove_field(rec, field_name) ==
  IF field_name \in DOMAIN rec.fields
    THEN [rec EXCEPT !.fields = DictDel(@, field_name)]
    ELSE rec

\* Record.edit_field
edit_field(rec, field_name, new_field) ==
  IF field_name \in DOMAIN rec.fields
    THEN [rec EXCEPT !.fields = DictSet(@, field_name, new_field)]
    ELSE rec

\* Record.add_phone
add_phone(rec, phone) ==
  LET r1 == IF "phones" \notin DOMAIN rec.fields
              THEN [rec EXCEPT !.fields = DictSet(@, "phones", <<>>)]
              ELSE rec
  IN [r1 EXCEPT !.fields = DictSet(@, "phones", Append(@["phones"], phone))]

ListFields == {"phones", "emails"}

\* a to_dict that keeps the first entry of a list only
Record_to_dict_first(rec) ==
  [k \in DOMAIN rec.fields |->
     IF k \in ListFields
       THEN [i \in 1..(IF rec.fields[k] = <<>> THEN 0 ELSE 1) |-> Field_to_dict(rec.fields[k][i])]
       ELSE Field_to_dict(rec.fields[k])]

\* Record.to_dict: the wrapped strings, lists kept as lists
Record_to_dict(rec) ==
  [k \in DOMAIN rec.fields |->
     IF k \in ListFields
       THEN [i \in 1..Len(rec.fields[k]) |-> Field_to_dict(rec.fields[k][i])]
       ELSE Field_to_dict(rec.fields[k])]

\* -------------------------------------------------------------- AddressBook
\* AddressBook.data is the sequence, in insertion order, of its entries
\* [key, rec]
Keys(data) == {data[i].key : i \in 1..Len(data)}

KeyIndex(data, k) == CHOOSE i \in 1..Len(data) : data[i].key = k

\* AddressBook.add_record: self.data[record.id] = record
add_record(data, rec) ==
  IF rec.id \in Keys(data)
    THEN [data EXCEPT ![KeyIndex(data, rec.id)].rec = rec]
    ELSE Append(data, [key |-> rec.id, rec |-> rec])

\* a delete that never raises
delete_ok_always(data, record_id) == TRUE

\* AddressBook.delete raises KeyError for a key that is not in self.data
delete_ok(data, record_id) == record_id \in Keys(data)

\* a delete that drops the first record whatever the id
delete_head(data, record_id) == Tail(data)

\* AddressBook.delete: del self.data[record_id]
delete(data, record_id) ==
  IF record_id \in Keys(data)
    THEN LET Keep(e) == e.key # record_id IN SelectSeq(data, Keep)
    ELSE data

\* AddressBook.find_by_name reads fields["name"] of every record up to the
\* match: KeyError when one of them has no "name"
find_by_name_ok(data, name) ==
  \A i \in 1..Len(data) :
    (\A j \in 1..(i - 1) :
       "name" \in DOMAIN data[j].rec.fields
         /\ data[j].rec.fields["name"].value # name.value)
      => "name" \in DOMAIN data[i].rec.fields

\* a find_by_name that finds nothing
find_by_name_none(data, name) == 0

\* AddressBook.find_by_name: the position of the first record with the name,
\* 0 for None
find_by_name(data, name) ==
  LET hit == {i \in 1..Len(data) :
                /\ "name" \in DOMAIN data[i].rec.fields
                /\ data[i].rec.fields["name"].value = name.value} IN
  IF hit = {} THEN 0 ELSE CHOOSE i \in hit : \A j \in hit : i <= j

\* ------------------------------------------------------- command registry
\* the names given to register_command in app/services.py
cmd_hello == <<"h", "e", "l", "l", "o">>

cmd_all == <<"a", "l", "l">>

cmd_add == <<"a", "d", "d">>

cmd_delete == <<"d", "e", "l", "e", "t", "e">>

cmd_add_phone == <<"a", "d", "d", "-", "p", "h", "o", "n", "e">>

cmd_edit_phone == <<"e", "d", "i", "t", "-", "p", "h", "o", "n", "e">>

cmd_show_phone == <<"s", "h", "o", "w", "-", "p", "h", "o", "n", "e">>

cmd_add_email == <<"a", "d", "d", "-", "e", "m", "a", "i", "l">>

cmd_show_email == <<"s", "h", "o", "w", "-", "e", "m", "a", "i", "l">>

cmd_edit_email == <<"e", "d", "i", "t", "-", "e", "m", "a", "i", "l">>

cmd_add_address == <<"a", "d", "d", "-", "a", "d", "d", "r", "e", "s", "s">>

cmd_edit_address == <<"e", "d", "i", "t", "-", "a", "d", "d", "r", "e", "s", "s">>

cmd_add_birthday == <<"a", "d", "d", "-", "b", "i", "r", "t", "h", "d", "a", "y">>

cmd_edit_birthday == <<"e", "d", "i", "t", "-", "b", "i", "r", "t", "h", "d", "a", "y">>

cmd_birthdays == <<"b", "i", "r", "t", "h", "d", "a", "y", "s">>

cmd_search_contact == <<"s", "e", "a", "r", "c", "h", "-", "c", "o", "n", "t", "a", "c", "t">>

cmd_add_note == <<"a", "d", "d", "-", "n", "o", "t", "e">>

cmd_edit_note == <<"e", "d", "i", "t", "-", "n", "o", "t", "e">>

cmd_delete_note == <<"d", "e", "l", "e", "t", "e", "-", "n", "o", "t", "e">>

cmd_find_tag_note == <<"f", "i", "n", "d", "-", "t", "a", "g", "-", "n", "o", "t", "e">>

cmd_search_notes == <<"s", "e", "a", "r", "c", "h", "-", "n", "o", "t", "e", "s">>

cmd_display_notes == <<"d", "i", "s", "p", "l", "a", "y", "-", "n", "o", "t", "e", "s">>

cmd_exit == <<"e", "x", "i", "t">>

cmd_close == <<"c", "l", "o", "s", "e">>

cmd_help == <<"h", "e", "l", "p">>

cmd_set_language == <<"s", "e", "t", "-", "l", "a", "n", "g", "u", "a", "g", "e">>

command_registry ==
  {cmd_hello, cmd_all, cmd_add, cmd_delete,
   cmd_add_phone, cmd_edit_phone, cmd_show_phone, cmd_add_email,
   cmd_show_email, cmd_edit_email, cmd_add_address, cmd_edit_address,
   cmd_add_birthday, cmd_edit_birthday, cmd_birthdays, cmd_search_contact,
   cmd_add_note, cmd_edit_note, cmd_delete_note, cmd_find_tag_note,
   cmd_search_notes, cmd_display_notes, cmd_exit, cmd_close,
   cmd_help, cmd_set_language}

\* get_command: the registered class, None for any other name
get_command(command) == IF command \in command_registry THEN command ELSE <<>>

\* the substring of handle_command's test: "note" in command
str_note == <<"n", "o", "t", "e">>

\* ------------------------------------------- AddressBook.get_upcoming_birthdays
\* the window written into get_upcoming_birthdays
UpcomingWindow == 7

\* both birthday.replace(year=...) calls succeed
Occurrence_ok(birthday, today) ==
  /\ Replace_ok(birthday, today.year)
  /\ DateLess(Replace_year(birthday, today.year), today)
       => Replace_ok(birthday, today.year + 1)

\* birthday_this_year without the roll-over to next year
Occurrence_this_year(birthday, today) == Replace_year(birthday, today.year)

\* birthday_this_year after the roll-over test
Occurrence(birthday, today) ==
  LET birthday_this_year == Replace_year(birthday, today.year) IN
  IF DateLess(birthday_this_year, today)
    THEN Replace_year(birthday_this_year, today.year + 1)
    ELSE birthday_this_year

\* day_difference
DayDifference(birthday, today) ==
  ToOrdinal(Occurrence(birthday, today)) - ToOrdinal(today)

\* 0 <= day_difference <= 7
InWindow(birthday, today) ==
  /\ 0 <= DayDifference(birthday, today)
  /\ DayDifference(birthday, today) <= UpcomingWindow

\* a congratulation_date left on the occurrence
Congratulation_unshifted(occurrence) == occurrence

\* congratulation_date: a Saturday or Sunday occurrence moves to the Monday
Congratulation(occurrence) ==
  IF Weekday(occurrence) > 4
    THEN AddDays(occurrence, 7 - Weekday(occurrence))
    ELSE occurrence

\* what the loop body raises for one record: "none" when it completes
Upcoming_raised_at(rec, today) ==
  IF "birthday" \notin DOMAIN rec.fields THEN "none"
  ELSE IF ~Strptime_ok(rec.fields["birthday"].value) THEN "ValueError"
  ELSE IF ~Occurrence_ok(Strptime(rec.fields["birthday"].value), today) THEN "ValueError"
  ELSE IF InWindow(Strptime(rec.fields["birthday"].value), today)
            /\ "name" \notin DOMAIN rec.fields THEN "KeyError"
  ELSE "none"

\* the exception get_upcoming_birthdays() ends with, "none" when it returns
get_upcoming_birthdays_raised(data, today) ==
  LET bad == {i \in 1..Len(data) : Upcoming_raised_at(data[i].rec, today) # "none"} IN
  IF bad = {} THEN "none"
  ELSE Upcoming_raised_at(data[CHOOSE i \in bad : \A j \in bad : i <= j].rec, today)

\* the list get_upcoming_birthdays() returns, in the order of self.data
RECURSIVE get_upcoming_birthdays(_, _)
get_upcoming_birthdays(data, today) ==
  IF data = <<>> THEN <<>>
  ELSE LET rec == data[1].rec
           birthday == Strptime(rec.fields["birthday"].value)
       IN (IF "birthday" \in DOMAIN rec.fields /\ InWindow(birthday, today)
             THEN <<[name |-> rec.fields["name"].value,
                     congratulation_date |->
                       Strftime(Congratulation(Occurrence(birthday, today)))]>>
             ELSE <<>>)
          \o get_upcoming_birthdays(Tail(data), today)

\* calling get_upcoming_birthdays(self) with n more positional arguments is a
\* TypeError unless n = 0
get_upcoming_birthdays_arity(n) == n = 0

\* ----------------------------------------------------------------- NotesBook
NoFile == [exists |-> FALSE, content |-> <<>>]

\* NotesBook.load_notes
load_notes(file) == IF file.exists THEN file.content ELSE <<>>

\* NotesBook.save_notes: the whole list replaces the file
save_notes(nb) == [nb EXCEPT !.file = [exists |-> TRUE, content |-> nb.notes]]

\* NotesBook.add_note with the uuid4 string note_id
add_note(nb, note_id, title, text, tags) ==
  save_notes([nb EXCEPT !.notes =
    Append(@, [id |-> note_id, title |-> title, text |-> text, tags |-> tags])])

\* NotesBook.edit_note raises KeyError when no note has the id
edit_note_ok(nb, note_id) == \E i \in 1..Len(nb.notes) : nb.notes[i].id = note_id

\* an edit_note that takes the tags of the note from the new text
edit_note_retagged(nb, note_id, new_title, new_text) ==
  LET i == CHOOSE k \in 1..Len(nb.notes) :
             /\ nb.notes[k].id = note_id
             /\ \A j \in 1..(k - 1) : nb.notes[j].id # note_id
      Hash(w) == Len(w) > 0 /\ w[1] = "#"
  IN save_notes([nb EXCEPT !.notes[i].title = new_title, !.notes[i].text = new_text,
                           !.notes[i].tags = SelectSeq(SplitBlank(new_text), Hash)])

\* an edit_note that sets the title and forgets the text
edit_note_title_only(nb, note_id, new_title, new_text) ==
  LET i == CHOOSE k \in 1..Len(nb.notes) :
             /\ nb.notes[k].id = note_id
             /\ \A j \in 1..(k - 1) : nb.notes[j].id # note_id
  IN save_notes([nb EXCEPT !.notes[i].title = new_title])

\* NotesBook.edit_note: the first note with the id
edit_note(nb, note_id, new_title, new_text) ==
  LET i == CHOOSE k \in 1..Len(nb.notes) :
             /\ nb.notes[k].id = note_id
             /\ \A j \in 1..(k - 1) : nb.notes[j].id # note_id
  IN save_notes([nb EXCEPT !.notes[i].title = new_title, !.notes[i].text = new_text])

\* a delete_note that stops at the first note with the id
delete_note_first(nb, note_id) ==
  IF \E i \in 1..Len(nb.notes) : nb.notes[i].id = note_id
    THEN LET i == CHOOSE k \in 1..Len(nb.notes) :
                    /\ nb.notes[k].id = note_id
                    /\ \A j \in 1..(k - 1) : nb.notes[j].id # note_id
         IN save_notes([nb EXCEPT !.notes =
                          SubSeq(@, 1, i - 1) \o SubSeq(@, i + 1, Len(@))])
    ELSE save_notes(nb)

\* delete_note without the save_notes call
delete_note_unsaved(nb, note_id) ==
  LET Keep(note) == note.id # note_id IN
  [nb EXCEPT !.notes = SelectSeq(@, Keep)]

\* NotesBook.delete_note
delete_note(nb, note_id) ==
  LET Keep(note) == note.id # note_id IN
  save_notes([nb EXCEPT !.notes = SelectSeq(@, Keep)])

\* NotesBook.search_notes
search_notes(nb, keyword) ==
  LET Hit(note) ==
        \/ Contains(LowerStr(note.title), LowerStr(keyword))
        \/ Contains(LowerStr(note.text), LowerStr(keyword))
        \/ \E i \in 1..Len(note.tags) : Contains(LowerStr(note.tags[i]), LowerStr(keyword))
  IN SelectSeq(nb.notes, Hit)

\* NotesBook.find_notes_with_same_tags: the notes it prints
tagged_notes(nb, tag) ==
  LET Tagged(note) == (<<"#">> \o tag) \in Range(note.tags) IN
  SelectSeq(nb.notes, Tagged)

\* ------------------------------------------------------- handler environment
\* What a handler reads and writes: both stores, the notes file, the contacts
\* file, the uuid4 values used, the language, the messages printed, the
\* exception it ended with and Command.exit_command_flag.
Say(st, level, key, data) ==
  [st EXCEPT !.out = Append(@, [level |-> level, key |-> key, data |-> data])]

Raise(st, exc) == [st EXCEPT !.raised = exc]

\* the handler got the store it uses: an attribute of the other store is an
\* AttributeError
HasBook(st, kind) == st.book_type = kind

SetRec(st, idx, rec) == [st EXCEPT !.book[idx].rec = rec]

NotesOf(st) == [notes |-> st.notes, file |-> st.file]

WithNotes(st, nb) == [st EXCEPT !.notes = nb.notes, !.file = nb.file]

\* str(uuid.uuid4()) for the n-th value
UuidStr(n) == <<"u", DigitChr(n)>>

\* FileStorage.save_contacts: the file keyed by record id, each value the
\* record's field mapping as plain strings
save_contacts(data) ==
  [k \in Keys(data) |-> Record_to_dict(data[KeyIndex(data, k)].rec)]

\* FileStorage.load_contacts: the mapping from record id to Record rebuilt
\* from the file, each record under the id it was saved with, its fields
\* wrapped again, list-valued where the file holds a list of phones or emails;
\* the entries come in the order of the ids
load_contacts(file) ==
  LET ids == DOMAIN file
      order == CHOOSE q \in [1..Cardinality(ids) -> ids] :
                 \A i, j \in 1..Cardinality(ids) : i < j => q[i] < q[j]
  IN [n \in 1..Cardinality(ids) |->
        [key |-> order[n],
         rec |-> [id |-> order[n],
                  name |-> Field(file[order[n]]["name"]),
                  fields |-> [k \in DOMAIN file[order[n]] |->
                                IF k \in ListFields
                                  THEN [i \in 1..Len(file[order[n]][k]) |->
                                          Field(file[order[n]][k][i])]
                                  ELSE Field(file[order[n]][k])]]]]

\* ---------------------------------------------------------- contact commands
IncorrectArguments(st) == Say(st, "error", "incorrect_arguments", <<>>)

\* the value of record.fields.get("phones", [])
PhonesOf(rec) ==
  IF "phones" \in DOMAIN rec.fields THEN rec.fields["phones"] ELSE <<>>

\* HelloCommand.execute
HelloCommand_execute(st, a) == Say(st, "info", "greeting", <<>>)

\* ShowAllContactsCommand.execute
RECURSIVE PrintRecords(_, _)
PrintRecords(st, data) ==
  IF data = <<>> THEN st
  ELSE PrintRecords(Say(st, "print", "record", <<>>), Tail(data))

ShowAllContactsCommand_execute(st, a) ==
  IF ~HasBook(st, "contacts") THEN Raise(st, "AttributeError")
  ELSE IF st.book # <<>> THEN PrintRecords(st, st.book)
  ELSE Raise(st, "IndexError")

\* an add that makes a second record for a name the store already has
AddContact_existing_second(st, idx, name, phone) ==
  IF ~Phone_ok(phone) THEN Raise(st, "ValueError")
  ELSE Say([st EXCEPT !.book = add_record(@, add_phone(Record(st.uuids + 1, Field(name), NoFields),
                                                        Field(phone))),
                      !.uuids = @ + 1],
           "info", "contact_added", <<name, phone>>)

\* AddContactCommand.execute, the branch of an existing record
AddContact_existing(st, idx, name, phone) ==
  LET rec == st.book[idx].rec IN
  IF \E i \in 1..Len(PhonesOf(rec)) : PhonesOf(rec)[i].value = phone
    THEN Say(st, "warning", "contact_exists", <<name, phone>>)
  ELSE LET r1 == IF PhonesOf(rec) = <<>>
                   THEN [rec EXCEPT !.fields = DictSet(@, "phones", <<>>)]
                   ELSE rec
       IN IF ~Phone_ok(phone) THEN Raise(SetRec(st, idx, r1), "ValueError")
          ELSE Say(SetRec(st, idx,
                     [r1 EXCEPT !.fields = DictSet(@, "phones", Append(@["phones"], Field(phone)))]),
                   "info", "phone_added", <<name, phone>>)

\* AddContactCommand.execute, the branch of a new record
AddContact_new(st, name, phone) ==
  IF ~Phone_ok(phone) THEN Raise(st, "ValueError")
  ELSE LET new_record == add_phone(Record(st.uuids + 1, Field(name), NoFields), Field(phone)) IN
       Say([st EXCEPT !.book = add_record(@, new_record), !.uuids = @ + 1],
           "info", "contact_added", <<name, phone>>)

\* AddContactCommand.execute
AddContactCommand_execute(st, a) ==
  IF Len(a) # 2 THEN IncorrectArguments(st)
  ELSE IF ~HasBook(st, "contacts") THEN Raise(st, "AttributeError")
  ELSE IF ~Name_ok(a[1]) THEN Raise(st, "ValueError")
  ELSE IF ~find_by_name_ok(st.book, Field(a[1])) THEN Raise(st, "KeyError")
  ELSE IF find_by_name(st.book, Field(a[1])) # 0
    THEN AddContact_existing(st, find_by_name(st.book, Field(a[1])), a[1], a[2])
  ELSE AddContact_new(st, a[1], a[2])

\* DeleteCommand.execute
DeleteCommand_execute(st, a) ==
  IF Len(a) # 1 THEN IncorrectArguments(st)
  ELSE IF ~HasBook(st, "contacts") THEN Raise(st, "AttributeError")
  ELSE IF ~Name_ok(a[1]) THEN Raise(st, "ValueError")
  ELSE IF ~find_by_name_ok(st.book, Field(a[1])) THEN Raise(st, "KeyError")
  ELSE IF find_by_name(st.book, Field(a[1])) = 0
    THEN Say(st, "error", "contact_not_found", <<a[1]>>)
  ELSE LET record == st.book[find_by_name(st.book, Field(a[1]))].rec IN
       IF ~delete_ok(st.book, record.id) THEN Raise(st, "KeyError")
       ELSE Say([st EXCEPT !.book = delete(@, record.id)],
                "info", "contact_deleted", <<a[1]>>)

\* FieldCommand.execute; created says that the subclass's
\* create_field(*args[1:]) returns, executed is what its
\* execute_field(record, field) leaves
FieldCommand_execute(st, a, created, executed) ==
  IF Len(a) < 2 THEN IncorrectArguments(st)
  ELSE IF ~HasBook(st, "contacts") THEN Raise(st, "AttributeError")
  ELSE IF ~Name_ok(a[1]) THEN Raise(st, "ValueError")
  ELSE IF ~find_by_name_ok(st.book, Field(a[1])) THEN Raise(st, "KeyError")
  ELSE IF find_by_name(st.book, Field(a[1])) = 0
    THEN Say(st, "error", "contact_not_found", <<a[1]>>)
  ELSE IF ~created THEN Raise(st, "ValueError")
  ELSE executed

\* AddPhoneCommand.create_field
AddPhone_create_ok(field_args) == Phone_ok(field_args[1])

AddPhone_create(field_args) == Field(field_args[1])

\* AddPhoneCommand.execute_field without the test for a phone already held
AddPhone_execute_field_unchecked(st, idx, field) ==
  Say(SetRec(st, idx, add_phone(st.book[idx].rec, field)),
      "info", "phone_added", <<st.book[idx].rec.name.value, field.value>>)

\* AddPhoneCommand.execute_field
AddPhone_execute_field(st, idx, field) ==
  LET rec == st.book[idx].rec IN
  IF "phones" \in DOMAIN rec.fields
       /\ \E i \in 1..Len(rec.fields["phones"]) : rec.fields["phones"][i].value = field.value
    THEN Say(st, "error", "contact_exists", <<rec.name.value, field.value>>)
    ELSE Say(SetRec(st, idx, add_phone(rec, field)),
             "info", "phone_added", <<rec.name.value, field.value>>)

\* AddPhoneCommand.execute (inherited)
AddPhoneCommand_execute(st, a) ==
  FieldCommand_execute(st, a, AddPhone_create_ok(Tail(a)),
                       AddPhone_execute_field(st, find_by_name(st.book, Field(a[1])), AddPhone_create(Tail(a))))

\* list.index(x) with Field.__eq__: the first position equal to x, 0 when
\* list.index raises ValueError
ListIndex(list, x) ==
  LET hit == {i \in 1..Len(list) : Field_eq(list[i], x)} IN
  IF hit = {} THEN 0 ELSE CHOOSE i \in hit : \A j \in hit : i <= j

\* Phone(value) or Email(value) returns, for the list the command edits
ListEntry_ok(key, value) == IF key = "phones" THEN Phone_ok(value) ELSE Email_ok(value)

\* the body shared by ChangeContactCommand.execute and
\* EditEmailOfContactCommand.execute: key is "phones" or "emails", not_found
\* and updated the message keys
EditListEntry(st, a, key, not_found, updated) ==
  IF Len(a) # 3 THEN IncorrectArguments(st)
  ELSE IF ~HasBook(st, "contacts") THEN Raise(st, "AttributeError")
  ELSE IF ~Name_ok(a[1]) THEN Raise(st, "ValueError")
  ELSE IF ~find_by_name_ok(st.book, Field(a[1])) THEN Raise(st, "KeyError")
  ELSE LET idx == find_by_name(st.book, Field(a[1])) IN
       IF idx = 0 \/ key \notin DOMAIN st.book[idx].rec.fields
         THEN Say(st, "error", "contact_not_found", <<a[1]>>)
       ELSE LET list == st.book[idx].rec.fields[key] IN
            IF ~ListEntry_ok(key, a[2]) \/ ListIndex(list, Field(a[2])) = 0
                 \/ ~ListEntry_ok(key, a[3])
              THEN Say(st, "error", not_found, <<a[1], a[2]>>)
              ELSE Say([st EXCEPT !.book[idx].rec.fields[key][ListIndex(list, Field(a[2]))]
                                    = Field(a[3])],
                       "info", updated, <<a[1], a[2], a[3]>>)

\* an edit-phone that looks the old value up in the list of emails
ChangeContactCommand_execute_emails(st, a) ==
  EditListEntry(st, a, "emails", "phone_not_found", "phone_updated")

\* ChangeContactCommand.execute
ChangeContactCommand_execute(st, a) == 
  EditListEntry(st, a, "phones", "phone_not_found", "phone_updated")

\* EditEmailOfContactCommand.execute
EditEmailOfContactCommand_execute(st, a) == 
  EditListEntry(st, a, "emails", "email_not_found", "email_updated")

\* the body shared by ShowPhoneCommand.execute and ShowEmailCommand.execute
ShowListField(st, a, key, info, not_found) ==
  IF Len(a) # 1 THEN IncorrectArguments(st)
  ELSE IF ~HasBook(st, "contacts") THEN Raise(st, "AttributeError")
  ELSE IF ~Name_ok(a[1]) THEN Raise(st, "ValueError")
  ELSE IF ~find_by_name_ok(st.book, Field(a[1])) THEN Raise(st, "KeyError")
  ELSE LET idx == find_by_name(st.book, Field(a[1])) IN
       IF idx = 0 THEN Say(st, "error", "contact_not_found", <<a[1]>>)
       ELSE LET rec == st.book[idx].rec IN
            IF key \in DOMAIN rec.fields
              THEN Say(st, "info", info,
                       <<rec.name.value,
                         Join([i \in 1..Len(rec.fields[key]) |-> rec.fields[key][i].value],
                              <<";", " ">>)>>)
              ELSE Say(st, "error", not_found, <<rec.name.value>>)

\* a show-phone that reads the list of emails
ShowPhoneCommand_execute_emails(st, a) ==
  ShowListField(st, a, "emails", "phone_info", "phone_not_found")

\* ShowPhoneCommand.execute
ShowPhoneCommand_execute(st, a) == ShowListField(st, a, "phones", "phone_info", "phone_not_found")

\* ShowEmailCommand.execute
ShowEmailCommand_execute(st, a) == ShowListField(st, a, "emails", "email_info", "email_not_found")

\* AddEmailToContactCommand.create_field
AddEmail_create_ok(field_args) == Email_ok(field_args[1])

AddEmail_create(field_args) == Field(field_args[1])

\* AddEmailToContactCommand.execute_field
AddEmail_execute_field(st, idx, field) ==
  LET rec == st.book[idx].rec
      r1 == IF "emails" \notin DOMAIN rec.fields
              THEN [rec EXCEPT !.fields = DictSet(@, "emails", <<>>)]
              ELSE rec
  IN Say(SetRec(st, idx, [r1 EXCEPT !.fields = DictSet(@, "emails", Append(@["emails"], field))]),
         "info", "email_added", <<rec.name.value, field.value>>)

\* AddEmailToContactCommand.execute (inherited)
AddEmailToContactCommand_execute(st, a) ==
  FieldCommand_execute(st, a, AddEmail_create_ok(Tail(a)),
                       AddEmail_execute_field(st, find_by_name(st.book, Field(a[1])), AddEmail_create(Tail(a))))

\* Address(value): a Field without validation
Address_ok(value) == TRUE

\* AddAddressToContactCommand.create_field wraps the whole argument tuple
AddAddress_create_ok(field_args) == Address_ok(field_args)

AddAddress_create(field_args) == Field(field_args)

\* AddAddressToContactCommand.execute_field
AddAddress_execute_field(st, idx, field) ==
  Say(SetRec(st, idx, add_field(st.book[idx].rec, "address", field)),
      "info", "address_added", <<st.book[idx].rec.name.value>>)

\* AddAddressToContactCommand.execute (inherited)
AddAddressToContactCommand_execute(st, a) ==
  FieldCommand_execute(st, a, AddAddress_create_ok(Tail(a)),
                       AddAddress_execute_field(st, find_by_name(st.book, Field(a[1])), AddAddress_create(Tail(a))))

\* EditAddressOfContactCommand.execute
EditAddressOfContactCommand_execute(st, a) ==
  IF Len(a) < 2 THEN IncorrectArguments(st)
  ELSE IF ~HasBook(st, "contacts") THEN Raise(st, "AttributeError")
  ELSE IF ~Name_ok(a[1]) THEN Raise(st, "ValueError")
  ELSE IF ~find_by_name_ok(st.book, Field(a[1])) THEN Raise(st, "KeyError")
  ELSE LET idx == find_by_name(st.book, Field(a[1])) IN
       IF idx # 0
         THEN Say(SetRec(st, idx, edit_field(st.book[idx].rec, "address", Field(Tail(a)))),
                  "info", "address_changed", <<a[1], Join(Tail(a), <<",", " ">>)>>)
         ELSE Say(st, "error", "contact_not_found", <<a[1]>>)

\* AddBirthdayCommand.create_field and EditBirthdayOfContactCommand.create_field
Birthday_create_ok(field_args) == Birthday_ok(field_args[1])

Birthday_create(field_args) == Field(field_args[1])

\* AddBirthdayCommand.execute_field
AddBirthday_execute_field(st, idx, field) ==
  Say(SetRec(st, idx, add_field(st.book[idx].rec, "birthday", field)),
      "info", "birthday_set", <<st.book[idx].rec.name.value, field.value>>)

\* AddBirthdayCommand.execute (inherited)
AddBirthdayCommand_execute(st, a) ==
  FieldCommand_execute(st, a, Birthday_create_ok(Tail(a)),
                       AddBirthday_execute_field(st, find_by_name(st.book, Field(a[1])), Birthday_create(Tail(a))))

\* EditBirthdayOfContactCommand.execute_field
EditBirthday_execute_field(st, idx, field) ==
  Say(SetRec(st, idx, edit_field(st.book[idx].rec, "birthday", field)),
      "info", "birthday_updated", <<st.book[idx].rec.name.value, field.value>>)

\* EditBirthdayOfContactCommand.execute (inherited)
EditBirthdayOfContactCommand_execute(st, a) ==
  FieldCommand_execute(st, a, Birthday_create_ok(Tail(a)),
                       EditBirthday_execute_field(st, find_by_name(st.book, Field(a[1])), Birthday_create(Tail(a))))

\* ShowUpcomingBirthdays.execute
RECURSIVE SayUpcoming(_, _)
SayUpcoming(st, entries) ==
  IF entries = <<>> THEN st
  ELSE SayUpcoming(Say(st, "info", "upcoming_birthdays",
                       <<entries[1].name, entries[1].congratulation_date>>),
                   Tail(entries))

ShowUpcomingBirthdays_execute(st, a) ==
  IF Len(a) # 1 THEN IncorrectArguments(st)
  ELSE IF ~Int_ok(a[1]) THEN Raise(st, "ValueError")
  ELSE IF ~HasBook(st, "contacts") THEN Raise(st, "AttributeError")
  ELSE IF ~get_upcoming_birthdays_arity(1) THEN Raise(st, "TypeError")
  ELSE IF get_upcoming_birthdays_raised(st.book, st.today) # "none"
    THEN Raise(st, get_upcoming_birthdays_raised(st.book, st.today))
  ELSE IF get_upcoming_birthdays(st.book, st.today) # <<>>
    THEN SayUpcoming(st, get_upcoming_birthdays(st.book, st.today))
  ELSE Say(st, "error", "no_upcoming_birthdays", <<a[1]>>)

\* str(field) of a single-valued field; the address is shown as its parts
FieldStr(k, f) == IF k = "address" THEN JoinBlank(f.value) ELSE f.value

\* the test of SearchContactsCommand.execute for one record
RecordMatches(rec, keyword) ==
  \E k \in DOMAIN rec.fields :
    IF k \in ListFields
      THEN \E i \in 1..Len(rec.fields[k]) : Contains(LowerStr(rec.fields[k][i].value), keyword)
      ELSE Contains(LowerStr(FieldStr(k, rec.fields[k])), keyword)

\* SearchContactsCommand.execute
SearchContactsCommand_execute(st, a) ==
  IF Len(a) < 1 THEN IncorrectArguments(st)
  ELSE IF ~HasBook(st, "contacts") THEN Raise(st, "AttributeError")
  ELSE LET Hit(e) == RecordMatches(e.rec, LowerStr(JoinBlank(a)))
           results == SelectSeq(st.book, Hit)
       IN IF results # <<>> THEN PrintRecords(st, results)
          ELSE Say(st, "info", "no_results_found", <<>>)

\* ------------------------------------------------------------- note commands
\* tag.startswith("#")
StartsWithHash(tag) == Len(tag) > 0 /\ tag[1] = "#"

\* AddNoteCommand.execute
AddNoteCommand_execute(st, a) ==
  IF Len(a) < 2 THEN IncorrectArguments(st)
  ELSE IF ~HasBook(st, "notes") THEN Raise(st, "AttributeError")
  ELSE Say([WithNotes(st, add_note(NotesOf(st), UuidStr(st.uuids + 1), a[1],
                                  JoinBlank(Tail(a)), SelectSeq(Tail(a), StartsWithHash)))
              EXCEPT !.uuids = @ + 1],
           "info", "note_added", <<a[1]>>)

\* EditNoteCommand.execute
EditNoteCommand_execute(st, a) ==
  IF Len(a) < 3 THEN IncorrectArguments(st)
  ELSE IF ~HasBook(st, "notes") THEN Raise(st, "AttributeError")
  ELSE IF ~edit_note_ok(NotesOf(st), a[1]) THEN Raise(st, "KeyError")
  ELSE Say(WithNotes(st, edit_note(NotesOf(st), a[1], a[2], JoinBlank(Tail(Tail(a))))),
           "info", "note_updated", <<a[2]>>)

\* DeleteNoteCommand.execute
DeleteNoteCommand_execute(st, a) ==
  IF Len(a) # 1 THEN IncorrectArguments(st)
  ELSE IF ~HasBook(st, "notes") THEN Raise(st, "AttributeError")
  ELSE Say(WithNotes(st, delete_note(NotesOf(st), a[1])),
           "info", "note_deleted", <<a[1]>>)

RECURSIVE PrintNotes(_, _)
PrintNotes(st, list) ==
  IF list = <<>> THEN st
  ELSE PrintNotes(Say(st, "print", "note", <<list[1].id, list[1].title, list[1].text>>),
                  Tail(list))

\* FindNoteCommand.execute: find_notes_with_same_tags prints the tagged notes
\* and returns None, which the handler's for loop cannot iterate
FindNoteCommand_execute(st, a) ==
  IF Len(a) # 1 THEN IncorrectArguments(st)
  ELSE IF ~HasBook(st, "notes") THEN Raise(st, "AttributeError")
  ELSE IF tagged_notes(NotesOf(st), a[1]) = <<>> THEN Raise(st, "ValueError")
  ELSE Raise(PrintNotes(st, tagged_notes(NotesOf(st), a[1])), "TypeError")

\* SearchNotesCommand.execute
SearchNotesCommand_execute(st, a) ==
  IF Len(a) < 1 THEN IncorrectArguments(st)
  ELSE IF ~HasBook(st, "notes") THEN Raise(st, "AttributeError")
  ELSE IF search_notes(NotesOf(st), JoinBlank(a)) # <<>>
    THEN PrintNotes(st, search_notes(NotesOf(st), JoinBlank(a)))
  ELSE Say(st, "info", "no_results_found", <<>>)

\* DisplayNotesCommand.execute: display_notes prints the notes and returns
\* None, which the handler's for loop cannot iterate
DisplayNotesCommand_execute(st, a) ==
  IF ~HasBook(st, "notes") THEN Raise(st, "AttributeError")
  ELSE IF st.notes = <<>> THEN Raise(st, "ValueError")
  ELSE Raise(PrintNotes(st, st.notes), "TypeError")

\* ---------------------------------------------------------- utility commands
\* an exit that saves and says goodbye but leaves the flag alone
ExitCommand_execute_flagless(st, a) ==
  IF ~HasBook(st, "contacts") THEN Raise(st, "AttributeError")
  ELSE Say([st EXCEPT !.disk = save_contacts(st.book)],
           "info", "exit_message", <<>>)

\* ExitCommand.execute
ExitCommand_execute(st, a) ==
  IF ~HasBook(st, "contacts") THEN Raise(st, "AttributeError")
  ELSE Say([st EXCEPT !.disk = save_contacts(st.book), !.exit = TRUE],
           "info", "exit_message", <<>>)

\* HelpCommand.execute
HelpCommand_execute(st, a) == Say(st, "print", "help", <<>>)

\* the keys of LANGUAGE_MAP["en"]
lang_en == <<"e", "n">>

lang_ua == <<"u", "a">>

lang_de == <<"d", "e">>

LANGUAGE_MAP == {lang_en, lang_ua, lang_de}

\* SetLanguageCommand.execute
SetLanguageCommand_execute(st, a) ==
  IF Len(a) # 1 THEN Say(IncorrectArguments(st), "print", "available_languages", <<>>)
  ELSE IF a[1] \notin LANGUAGE_MAP
    THEN Say(IncorrectArguments(st), "print", "available_languages", <<>>)
  ELSE Say([st EXCEPT !.lang = a[1]], "info", "set_language", <<a[1]>>)

\* ------------------------------------------------------------ handle_command
\* input_error with only the ValueError, KeyError and IndexError clauses
input_error_narrow(st) ==
  IF st.raised \notin {"ValueError", "KeyError", "IndexError"} THEN st
  ELSE Say([st EXCEPT !.raised = "none"], "print",
           CASE st.raised = "ValueError" -> "Error: Incorrect arguments."
             [] st.raised = "KeyError" -> "Error: Contact not found."
             [] OTHER -> "Error: Index out of range.",
           <<>>)

\* input_error: every exception of the handler becomes a printed message
input_error(st) ==
  IF st.raised = "none" THEN st
  ELSE Say([st EXCEPT !.raised = "none"], "print",
           CASE st.raised = "TypeError" -> "Error: Incorrect command."
             [] st.raised = "ValueError" -> "Error: Incorrect arguments."
             [] st.raised = "KeyError" -> "Error: Contact not found."
             [] st.raised = "IndexError" -> "Error: Index out of range."
             [] OTHER -> "An unexpected error occurred:",
           <<>>)

\* a dispatcher that looks for "notes" in the command name
book_type_of_plural(command) ==
  IF Contains(command, <<"n", "o", "t", "e", "s">>) THEN "notes" ELSE "contacts"

\* the store handle_command passes to the command class
book_type_of(command) == IF Contains(command, str_note) THEN "notes" ELSE "contacts"

\* a dispatcher that raises for a name outside the registry
IncorrectCommand_raises(st, command) == Raise(st, "KeyError")

\* handle_command for a command outside the registry
IncorrectCommand(st, command) == Say(st, "error", "incorrect_command", <<command>>)

\* ----------------------------------------------------------- presentation/cli
\* parse_input: the command and the arguments of a line
parse_input(user_input) ==
  LET parts == SplitBlank(user_input) IN
  [command |-> IF parts # <<>> THEN parts[1] ELSE <<>>,
   args |-> IF Len(parts) > 1 THEN Tail(parts) ELSE <<>>]

\* the length of the common run of a from i and b from j
RECURSIVE RunLen(_, _, _, _)
RunLen(a, b, i, j) ==
  IF i > Len(a) \/ j > Len(b) \/ a[i] # b[j] THEN 0
  ELSE 1 + RunLen(a, b, i + 1, j + 1)

\* SequenceMatcher.find_longest_match: the longest block, the earliest in a
\* and then the earliest in b among the longest
LongestMatch(a, b) ==
  LET all == {<<i, j>> \in (1..Len(a)) \X (1..Len(b)) : TRUE}
      Better(p, q) ==
        \/ RunLen(a, b, p[1], p[2]) > RunLen(a, b, q[1], q[2])
        \/ /\ RunLen(a, b, p[1], p[2]) = RunLen(a, b, q[1], q[2])
           /\ (p[1] < q[1] \/ (p[1] = q[1] /\ p[2] <= q[2]))
      best == CHOOSE p \in all : \A q \in all : Better(p, q)
  IN [i |-> best[1], j |-> best[2], k |-> RunLen(a, b, best[1], best[2])]

\* the sum of the sizes of SequenceMatcher.get_matching_blocks
RECURSIVE Matches(_, _)
Matches(a, b) ==
  IF a = <<>> \/ b = <<>> THEN 0
  ELSE LET m == LongestMatch(a, b) IN
       IF m.k = 0 THEN 0
       ELSE m.k + Matches(SubSeq(a, 1, m.i - 1), SubSeq(b, 1, m.j - 1))
                + Matches(SubSeq(a, m.i + m.k, Len(a)), SubSeq(b, m.j + m.k, Len(b)))

\* SequenceMatcher.ratio() >= 0.6, the cutoff of difflib.get_close_matches
CloseMatch(word, x) ==
  Len(word) + Len(x) > 0 /\ 10 * Matches(x, word) >= 3 * (Len(word) + Len(x))

\* difflib.get_close_matches(command, command_registry.keys()) is not empty
suggestions(command) == {x \in command_registry : CloseMatch(command, x)}

\* ------------------------------------------------------------------- inputs
tAlice == <<"A", "l", "i", "c", "e">>

tBob == <<"B", "o", "b">>

tP1 == <<"+", "1", "9", "8", "7", "6", "5", "4", "3", "2", "1", "0">>

tP2 == <<"1", "2", "3", "4", "5", "6", "7", "8", "9", "0">>

tPBad == <<"1", "2", "3", "4", "5">>

tE1 == <<"a", "@", "b", ".", "c", "o">>

tE2 == <<"x", "_", "y", "@", "c", "-", "d", ".", "o", "r", "g">>

tEBad == <<"a", "@", "b">>

tD1 == <<"1", "5", ".", "0", "3", ".", "1", "9", "9", "0">>

tDBad == <<"3", "1", ".", "0", "2", ".", "2", "0", "0", "0">>

tThree == <<"3">>

tKyiv == <<"K", "y", "i", "v">>

tGroceries == <<"G", "r", "o", "c", "e", "r", "i", "e", "s">>

tMilk == <<"m", "i", "l", "k">>

tErrand == <<"e", "r", "r", "a", "n", "d">>

tHashErrand == <<"#", "e", "r", "r", "a", "n", "d">>

tQuoteBuy == <<"\"", "b", "u", "y">>

tHashErrandQuote == <<"#", "e", "r", "r", "a", "n", "d", "\"">>

tTea == <<"t", "e", "a">>

tAli == <<"a", "l", "i">>

tFr == <<"f", "r">>

tAd == <<"a", "d">>

tXyz == <<"x", "y", "z">>

tD2 == <<"1", "4", ".", "0", "3", ".", "1", "9", "9", "0">>

tU0 == <<"u", "0">>

tU1 == <<"u", "1">>

tU2 == <<"u", "2">>

\* the lines typed at the prompt
Lines ==
  {JoinBlank(<<cmd_add, tAlice, tP1>>),
   JoinBlank(<<cmd_add, tBob, tP2>>),
   JoinBlank(<<cmd_add, tBob, tPBad>>),
   JoinBlank(<<cmd_add, tAlice>>),
   JoinBlank(<<cmd_add, tAlice, tP1, tP2>>),
   JoinBlank(<<cmd_delete, tAlice>>),
   JoinBlank(<<cmd_delete>>),
   JoinBlank(<<cmd_delete, tAlice, tBob>>),
   JoinBlank(<<cmd_add_phone, tAlice, tP2>>),
   JoinBlank(<<cmd_add_phone, tAlice, tP1>>),
   JoinBlank(<<cmd_add_phone, tAlice, tPBad>>),
   JoinBlank(<<cmd_add_phone, tAlice>>),
   JoinBlank(<<cmd_add_phone, tAlice, tP2, tP1>>),
   JoinBlank(<<cmd_edit_phone, tAlice, tP1, tP2>>),
   JoinBlank(<<cmd_edit_phone, tAlice, tP1, tPBad>>),
   JoinBlank(<<cmd_edit_phone, tAlice, tPBad, tP2>>),
   JoinBlank(<<cmd_edit_phone, tAlice, tP1>>),
   JoinBlank(<<cmd_edit_phone, tAlice, tP1, tP2, tP1>>),
   JoinBlank(<<cmd_show_phone, tAlice>>),
   JoinBlank(<<cmd_show_phone>>),
   JoinBlank(<<cmd_show_phone, tAlice, tBob>>),
   JoinBlank(<<cmd_add_email, tAlice, tE2>>),
   JoinBlank(<<cmd_add_email, tBob, tEBad>>),
   JoinBlank(<<cmd_add_email, tAlice>>),
   JoinBlank(<<cmd_add_email, tAlice, tE2, tE1>>),
   JoinBlank(<<cmd_show_email, tAlice>>),
   JoinBlank(<<cmd_edit_email, tAlice, tE1, tE2>>),
   JoinBlank(<<cmd_edit_email, tAlice, tE1, tEBad>>),
   JoinBlank(<<cmd_edit_email, tAlice, tE1>>),
   JoinBlank(<<cmd_edit_email, tAlice, tE1, tE2, tE1>>),
   JoinBlank(<<cmd_add_address, tBob, tKyiv>>),
   JoinBlank(<<cmd_edit_address, tBob, tKyiv>>),
   JoinBlank(<<cmd_add_birthday, tBob, tD1>>),
   JoinBlank(<<cmd_add_birthday, tAlice, tDBad>>),
   JoinBlank(<<cmd_add_birthday, tBob>>),
   JoinBlank(<<cmd_add_birthday, tBob, tD1, tD1>>),
   JoinBlank(<<cmd_edit_birthday, tAlice, tD2>>),
   JoinBlank(<<cmd_edit_birthday, tAlice, tDBad>>),
   JoinBlank(<<cmd_edit_birthday, tAlice>>),
   JoinBlank(<<cmd_edit_birthday, tAlice, tD2, tD1>>),
   JoinBlank(<<cmd_birthdays, tThree>>),
   JoinBlank(<<cmd_birthdays>>),
   JoinBlank(<<cmd_birthdays, tThree, tThree>>),
   JoinBlank(<<cmd_search_contact, tAli>>),
   JoinBlank(<<cmd_add_note, tGroceries, tMilk, tHashErrand>>),
   JoinBlank(<<cmd_add_note, tGroceries, tQuoteBuy, tMilk, tHashErrandQuote>>),
   JoinBlank(<<cmd_edit_note, tU1, tGroceries, tTea>>),
   JoinBlank(<<cmd_delete_note, tU0>>),
   JoinBlank(<<cmd_delete_note>>),
   JoinBlank(<<cmd_delete_note, tU0, tU0>>),
   JoinBlank(<<cmd_find_tag_note, tErrand>>),
   JoinBlank(<<cmd_find_tag_note>>),
   JoinBlank(<<cmd_find_tag_note, tErrand, tErrand>>),
   JoinBlank(<<cmd_search_notes, tMilk>>),
   JoinBlank(<<cmd_display_notes>>),
   JoinBlank(<<cmd_exit>>),
   JoinBlank(<<cmd_close>>),
   JoinBlank(<<cmd_help>>),
   JoinBlank(<<cmd_hello>>),
   JoinBlank(<<cmd_all>>),
   JoinBlank(<<cmd_set_language, lang_de>>),
   JoinBlank(<<cmd_set_language, tFr>>),
   JoinBlank(<<tAd>>),
   JoinBlank(<<tXyz>>),
   JoinBlank(<<>>)}

\* handle_command, wrapped by input_error; executed is what the execute
\* method of the class the registry holds for the name leaves
handle_command(name, st, executed) ==
  input_error(IF get_command(name) # <<>> THEN executed ELSE IncorrectCommand(st, name))

\* -------------------------------------------------------------------- state
VARIABLES
  address_book,        \* AddressBook.data
  notes,               \* NotesBook.notes
  notes_file,          \* notes.json
  disk,                \* addressbook.json
  uuids,               \* how many uuid4 values exist
  language,            \* settings.language
  exit_command_flag,   \* Command.exit_command_flag
  today,               \* datetime.today().date()
  out,                 \* what the last command printed
  pc,                  \* where main is: "prompt", "handle", "save", "done"
  command,             \* main's command
  args,                \* main's args
  ncmds,               \* lines read, or methods called
  propagated,          \* the exception that left handle_command
  ret                  \* the last direct method call and its outcome

vars == <<address_book, notes, notes_file, disk, uuids, language, exit_command_flag,
          today, out, pc, command, args, ncmds, propagated, ret>>

\* the environment of a handler, read from the state: book_type is the store
\* handle_command passes to the command class
Ctx ==
  [book |-> address_book, notes |-> notes, file |-> notes_file, disk |-> disk,
   uuids |-> uuids, lang |-> language, exit |-> exit_command_flag, today |-> today,
   out |-> <<>>, raised |-> "none", book_type |-> book_type_of(command)]

\* the state takes what the handler left
Commit(r) ==
  /\ address_book' = r.book
  /\ notes' = r.notes
  /\ notes_file' = r.file
  /\ disk' = r.disk
  /\ uuids' = r.uuids
  /\ language' = r.lang
  /\ exit_command_flag' = r.exit
  /\ out' = r.out

NoCall == [op |-> "none", arg |-> <<>>, raised |-> "none", value |-> <<>>]

\* ------------------------------------------------------------ initial files
\* a contact that was stored with a name only
BobRecord == Record(1, Field(tBob), NoFields)

\* a contact with a phone, an email and a birthday
AliceRecord ==
  Record(1, Field(tAlice),
         [x \in {"phones", "emails", "birthday"} |->
            CASE x = "phones" -> <<Field(tP1)>>
              [] x = "emails" -> <<Field(tE1)>>
              [] x = "birthday" -> Field(tD1)])

ErrandNote ==
  [id |-> tU0, title |-> tGroceries, text |-> JoinBlank(<<tMilk, tHashErrand>>),
   tags |-> <<tHashErrand>>]

\* what addressbook.json and notes.json hold when main starts: the contacts
\* loaded, the notes file, and the uuid4 values already in them
InitialFiles ==
  {[book |-> <<>>, file |-> NoFile, uuids |-> 0],
   [book |-> <<[key |-> 1, rec |-> BobRecord]>>,
    file |-> [exists |-> TRUE, content |-> <<ErrandNote>>], uuids |-> 1],
   [book |-> <<[key |-> 1, rec |-> AliceRecord]>>, file |-> NoFile, uuids |-> 1]}

CliToday == Date(2025, 3, 12)

\* main before the first prompt
Init ==
  /\ \E f \in InitialFiles :
       /\ address_book = f.book
       /\ notes_file = f.file
       /\ notes = load_notes(f.file)
       /\ disk = save_contacts(f.book)
       /\ uuids = f.uuids
  /\ language = lang_en
  /\ exit_command_flag = FALSE
  /\ today = CliToday
  /\ out = <<>>
  /\ pc = "prompt"
  /\ command = <<>>
  /\ args = <<>>
  /\ ncmds = 0
  /\ propagated = "none"
  /\ ret = NoCall

\* ------------------------------------------------------------------ main loop
\* session.prompt and parse_input, for a line main passes to handle_command
ReadCommand ==
  /\ pc = "prompt"
  /\ ~exit_command_flag
  /\ ncmds < MaxCmds
  /\ \E line \in Lines :
       /\ ~(parse_input(line).command \notin command_registry
              /\ suggestions(parse_input(line).command) # {})
       /\ command' = parse_input(line).command
       /\ args' = parse_input(line).args
  /\ pc' = "handle"
  /\ ncmds' = ncmds + 1
  /\ UNCHANGED <<address_book, notes, notes_file, disk, uuids, language,
                 exit_command_flag, today, out, propagated, ret>>

\* session.prompt and parse_input, for an unknown command with close matches:
\* main prints them and continues
ReadSuggested ==
  /\ pc = "prompt"
  /\ ~exit_command_flag
  /\ ncmds < MaxCmds
  /\ \E line \in Lines :
       /\ parse_input(line).command \notin command_registry
       /\ suggestions(parse_input(line).command) # {}
       /\ command' = parse_input(line).command
       /\ args' = parse_input(line).args
  /\ out' = <<[level |-> "print", key |-> "did_you_mean", data |-> <<>>]>>
  /\ ncmds' = ncmds + 1
  /\ UNCHANGED <<address_book, notes, notes_file, disk, uuids, language,
                 exit_command_flag, today, pc, propagated, ret>>

\* session.prompt raises EOFError or KeyboardInterrupt: break
ReadEOF ==
  /\ pc = "prompt"
  /\ ~exit_command_flag
  /\ pc' = "done"
  /\ UNCHANGED <<address_book, notes, notes_file, disk, uuids, language,
                 exit_command_flag, today, out, command, args, ncmds, propagated, ret>>

\* the loop test sees Command.exit_command_flag
LoopExit ==
  /\ pc = "prompt"
  /\ exit_command_flag
  /\ pc' = "done"
  /\ UNCHANGED <<address_book, notes, notes_file, disk, uuids, language,
                 exit_command_flag, today, out, command, args, ncmds, propagated, ret>>

\* handle_command(command, address_book, notes_book, *args), executed being
\* what the execute method of the class registered under the command leaves;
\* an exception that leaves handle_command is printed by main, which skips
\* the save
HandleCommand(executed) ==
  /\ pc = "handle"
  /\ LET r == handle_command(command, Ctx, executed) IN
     /\ r.uuids <= MaxIds
     /\ Commit(r)
     /\ propagated' = r.raised
     /\ pc' = IF r.raised = "none" THEN "save" ELSE "prompt"
  /\ UNCHANGED <<today, command, args, ncmds, ret>>

\* a loop that goes back to the prompt without save_contacts
SaveContacts_skipped ==
  /\ pc = "save"
  /\ pc' = "prompt"
  /\ UNCHANGED <<address_book, notes, notes_file, disk, uuids, language, exit_command_flag,
                 today, out, command, args, ncmds, propagated, ret>>

\* storage.save_contacts(address_book)
SaveContacts ==
  /\ pc = "save"
  /\ disk' = save_contacts(address_book)
  /\ pc' = "prompt"
  /\ UNCHANGED <<address_book, notes, notes_file, uuids, language, exit_command_flag,
                 today, out, command, args, ncmds, propagated, ret>>

Handle_hello ==
  /\ command = cmd_hello
  /\ HandleCommand(HelloCommand_execute(Ctx, args))

Handle_all ==
  /\ command = cmd_all
  /\ HandleCommand(ShowAllContactsCommand_execute(Ctx, args))

Handle_add ==
  /\ command = cmd_add
  /\ HandleCommand(AddContactCommand_execute(Ctx, args))

Handle_delete ==
  /\ command = cmd_delete
  /\ HandleCommand(DeleteCommand_execute(Ctx, args))

Handle_add_phone ==
  /\ command = cmd_add_phone
  /\ HandleCommand(AddPhoneCommand_execute(Ctx, args))

Handle_edit_phone ==
  /\ command = cmd_edit_phone
  /\ HandleCommand(ChangeContactCommand_execute(Ctx, args))

Handle_show_phone ==
  /\ command = cmd_show_phone
  /\ HandleCommand(ShowPhoneCommand_execute(Ctx, args))

Handle_add_email ==
  /\ command = cmd_add_email
  /\ HandleCommand(AddEmailToContactCommand_execute(Ctx, args))

Handle_show_email ==
  /\ command = cmd_show_email
  /\ HandleCommand(ShowEmailCommand_execute(Ctx, args))

Handle_edit_email ==
  /\ command = cmd_edit_email
  /\ HandleCommand(EditEmailOfContactCommand_execute(Ctx, args))

Handle_add_address ==
  /\ command = cmd_add_address
  /\ HandleCommand(AddAddressToContactCommand_execute(Ctx, args))

Handle_edit_address ==
  /\ command = cmd_edit_address
  /\ HandleCommand(EditAddressOfContactCommand_execute(Ctx, args))

Handle_add_birthday ==
  /\ command = cmd_add_birthday
  /\ HandleCommand(AddBirthdayCommand_execute(Ctx, args))

Handle_edit_birthday ==
  /\ command = cmd_edit_birthday
  /\ HandleCommand(EditBirthdayOfContactCommand_execute(Ctx, args))

Handle_birthdays ==
  /\ command = cmd_birthdays
  /\ HandleCommand(ShowUpcomingBirthdays_execute(Ctx, args))

Handle_search_contact ==
  /\ command = cmd_search_contact
  /\ HandleCommand(SearchContactsCommand_execute(Ctx, args))

Handle_add_note ==
  /\ command = cmd_add_note
  /\ HandleCommand(AddNoteCommand_execute(Ctx, args))

Handle_edit_note ==
  /\ command = cmd_edit_note
  /\ HandleCommand(EditNoteCommand_execute(Ctx, args))

Handle_delete_note ==
  /\ command = cmd_delete_note
  /\ HandleCommand(DeleteNoteCommand_execute(Ctx, args))

Handle_find_tag_note ==
  /\ command = cmd_find_tag_note
  /\ HandleCommand(FindNoteCommand_execute(Ctx, args))

Handle_search_notes ==
  /\ command = cmd_search_notes
  /\ HandleCommand(SearchNotesCommand_execute(Ctx, args))

Handle_display_notes ==
  /\ command = cmd_display_notes
  /\ HandleCommand(DisplayNotesCommand_execute(Ctx, args))

Handle_exit ==
  /\ command = cmd_exit
  /\ HandleCommand(ExitCommand_execute(Ctx, args))

Handle_close ==
  /\ command = cmd_close
  /\ HandleCommand(ExitCommand_execute(Ctx, args))

Handle_help ==
  /\ command = cmd_help
  /\ HandleCommand(HelpCommand_execute(Ctx, args))

Handle_set_language ==
  /\ command = cmd_set_language
  /\ HandleCommand(SetLanguageCommand_execute(Ctx, args))

\* a name outside the registry has no class to run
NoCommand_execute(st, a) == st

Handle_unknown ==
  /\ command \notin command_registry
  /\ HandleCommand(NoCommand_execute(Ctx, args))

Next ==
  \/ ReadCommand
  \/ ReadSuggested
  \/ ReadEOF
  \/ LoopExit
  \/ SaveContacts
  \/ Handle_hello
  \/ Handle_all
  \/ Handle_add
  \/ Handle_delete
  \/ Handle_add_phone
  \/ Handle_edit_phone
  \/ Handle_show_phone
  \/ Handle_add_email
  \/ Handle_show_email
  \/ Handle_edit_email
  \/ Handle_add_address
  \/ Handle_edit_address
  \/ Handle_add_birthday
  \/ Handle_edit_birthday
  \/ Handle_birthdays
  \/ Handle_search_contact
  \/ Handle_add_note
  \/ Handle_edit_note
  \/ Handle_delete_note
  \/ Handle_find_tag_note
  \/ Handle_search_notes
  \/ Handle_display_notes
  \/ Handle_exit
  \/ Handle_close
  \/ Handle_help
  \/ Handle_set_language
  \/ Handle_unknown

Spec == Init /\ [][Next]_vars

\* the statements main runs on the way out, none of which waits for the
\* terminal: the exit handler, save_contacts and the loop test
ExitPath == Handle_exit \/ Handle_close \/ SaveContacts \/ LoopExit

\* main with the interpreter running every statement that can run; nothing is
\* assumed about when, or whether, the user types a line
SpecLive == Spec /\ WF_vars(ExitPath)

\* ------------------------------------------------------ direct method calls
\* The methods of AddressBook, Record and NotesBook called one at a time, the
\* way a test or another module calls them; ret is the call and its outcome.

tB_1203 == <<"1", "2", ".", "0", "3", ".", "2", "0", "0", "1">>

tB_1103 == <<"1", "1", ".", "0", "3", ".", "1", "9", "7", "0">>

tB_1603 == <<"1", "6", ".", "0", "3", ".", "1", "9", "9", "9">>

tB_1903 == <<"1", "9", ".", "0", "3", ".", "1", "9", "8", "8">>

tB_2003 == <<"2", "0", ".", "0", "3", ".", "1", "9", "9", "0">>

tB_0101 == <<"0", "1", ".", "0", "1", ".", "1", "9", "8", "5">>

tB_2812 == <<"2", "8", ".", "1", "2", ".", "1", "9", "9", "1">>

tB_3112 == <<"3", "1", ".", "1", "2", ".", "1", "9", "9", "9">>

tB_2902 == <<"2", "9", ".", "0", "2", ".", "2", "0", "0", "0">>

CallBirthdays ==
  {tD1, tB_1203, tB_1103, tB_1603, tB_1903, tB_2003, tB_0101, tB_2812, tB_3112, tB_2902}

\* Record(Name(name), birthday=Birthday(b)) with the uuid4 value id
BirthdayRecord(id, name, b) == Record(id, Field(name), [x \in {"birthday"} |-> Field(b)])

Entry(rec) == [key |-> rec.id, rec |-> rec]

\* the stores the calls start from
CallBooks ==
  {<<>>, <<Entry(BobRecord)>>, <<Entry(AliceRecord)>>,
   <<Entry(BobRecord), Entry(BirthdayRecord(2, tAlice, tB_1203))>>}

\* the stores the birthday queries start from
BirthdayBooks ==
  {<<Entry(BobRecord)>>}
    \cup {<<Entry(BirthdayRecord(1, tAlice, b))>> : b \in CallBirthdays}
    \cup {<<Entry(BirthdayRecord(1, tAlice, tB_2902)), Entry(BirthdayRecord(2, tBob, tD1))>>,
          <<Entry(BirthdayRecord(1, tAlice, tD1)), Entry(BirthdayRecord(2, tBob, tB_0101))>>,
          <<Entry(BobRecord), Entry(BirthdayRecord(2, tAlice, tB_1203))>>}

\* the days the queries are made on: a Wednesday, a Saturday at the end of a
\* leap year, and the 27th of February of a leap and of a common year
Todays == {Date(2025, 3, 12), Date(2024, 12, 28), Date(2024, 2, 27), Date(2025, 2, 27)}

\* what every direct call starts from, but for the stores and the day
InitFrame ==
  /\ notes = load_notes(notes_file)
  /\ disk = save_contacts(address_book)
  /\ uuids = Len(address_book)
  /\ language = lang_en
  /\ exit_command_flag = FALSE
  /\ out = <<>>
  /\ pc = "calls"
  /\ command = <<>>
  /\ args = <<>>
  /\ ncmds = 0
  /\ propagated = "none"
  /\ ret = NoCall

\* the notes.json files the calls start from: none, one note, and a file that
\* holds two notes under one id, which json.load takes as it is
CallNoteFiles ==
  {NoFile,
   [exists |-> TRUE, content |-> <<ErrandNote>>],
   [exists |-> TRUE,
    content |-> <<ErrandNote, [ErrandNote EXCEPT !.title = tGroceries \o <<"2">>]>>]}

InitCalls ==
  /\ address_book \in CallBooks
  /\ notes_file \in CallNoteFiles
  /\ today = CliToday
  /\ InitFrame

InitBirthdays ==
  /\ address_book \in BirthdayBooks
  /\ notes_file = NoFile
  /\ today \in Todays
  /\ InitFrame

Called(op, arg, raised, value) == [op |-> op, arg |-> arg, raised |-> raised, value |-> value]

CallFrame == <<disk, language, exit_command_flag, today, out, pc, command, args, propagated>>

\* address_book.add_record(Record(Name(name))) or
\* address_book.add_record(Record(Name(name), birthday=Birthday(b)))
Call_add_record ==
  /\ ncmds < MaxCalls
  /\ uuids < MaxIds
  /\ \E name \in {tAlice, tBob}, fields \in {NoFields} \cup {[x \in {"birthday"} |-> Field(tB_1203)]} :
       /\ address_book' = add_record(address_book, Record(uuids + 1, Field(name), fields))
       /\ ret' = Called("add_record", <<uuids + 1>>, "none", <<>>)
  /\ uuids' = uuids + 1
  /\ ncmds' = ncmds + 1
  /\ UNCHANGED <<notes, notes_file>>
  /\ UNCHANGED CallFrame

\* address_book.add_record(Record(Name(name), birthday=Birthday(b)))
Call_add_birthday_record ==
  /\ ncmds < MaxCalls
  /\ uuids < MaxIds
  /\ \E b \in CallBirthdays :
       /\ address_book' = add_record(address_book, BirthdayRecord(uuids + 1, tBob, b))
       /\ ret' = Called("add_record", <<uuids + 1>>, "none", <<>>)
  /\ uuids' = uuids + 1
  /\ ncmds' = ncmds + 1
  /\ UNCHANGED <<notes, notes_file>>
  /\ UNCHANGED CallFrame

\* address_book.delete(record_id)
Call_delete ==
  /\ ncmds < MaxCalls
  /\ \E record_id \in 1..MaxIds :
       IF delete_ok(address_book, record_id)
         THEN /\ address_book' = delete(address_book, record_id)
              /\ ret' = Called("delete", <<record_id>>, "none", <<>>)
         ELSE /\ address_book' = address_book
              /\ ret' = Called("delete", <<record_id>>, "KeyError", <<>>)
  /\ ncmds' = ncmds + 1
  /\ UNCHANGED <<notes, notes_file, uuids>>
  /\ UNCHANGED CallFrame

\* address_book.find_by_name(Name(name))
Call_find_by_name ==
  /\ ncmds < MaxCalls
  /\ \E name \in {tAlice, tBob} :
       ret' = IF find_by_name_ok(address_book, Field(name))
                THEN Called("find_by_name", <<name>>, "none",
                            <<find_by_name(address_book, Field(name))>>)
                ELSE Called("find_by_name", <<name>>, "KeyError", <<>>)
  /\ ncmds' = ncmds + 1
  /\ UNCHANGED <<address_book, notes, notes_file, uuids>>
  /\ UNCHANGED CallFrame

\* address_book.get_upcoming_birthdays(*call_args)
Call_get_upcoming_birthdays ==
  /\ ncmds < MaxCalls
  /\ \E call_args \in {<<>>, <<3>>} :
       ret' = IF ~get_upcoming_birthdays_arity(Len(call_args))
                THEN Called("get_upcoming_birthdays", call_args, "TypeError", <<>>)
              ELSE IF get_upcoming_birthdays_raised(address_book, today) # "none"
                THEN Called("get_upcoming_birthdays", call_args,
                            get_upcoming_birthdays_raised(address_book, today), <<>>)
              ELSE Called("get_upcoming_birthdays", call_args, "none",
                          get_upcoming_birthdays(address_book, today))
  /\ ncmds' = ncmds + 1
  /\ UNCHANGED <<address_book, notes, notes_file, uuids>>
  /\ UNCHANGED CallFrame

\* record.add_field, record.edit_field, record.remove_field and
\* record.add_phone on a record of the store
Call_record_method ==
  /\ ncmds < MaxCalls
  /\ \E i \in 1..Len(address_book) :
       \/ \E k \in {"birthday"} :
            /\ address_book' = [address_book EXCEPT ![i].rec = add_field(@, k, Field(tD2))]
            /\ ret' = Called("add_field", <<i, k>>, "none", <<>>)
       \/ \E k \in {"name", "birthday"} :
            /\ address_book' = [address_book EXCEPT ![i].rec = edit_field(@, k, Field(tD2))]
            /\ ret' = Called("edit_field", <<i, k>>, "none", <<>>)
       \/ \E k \in {"name", "phones"} :
            /\ address_book' = [address_book EXCEPT ![i].rec = remove_field(@, k)]
            /\ ret' = Called("remove_field", <<i, k>>, "none", <<>>)
       \/ /\ address_book' = [address_book EXCEPT ![i].rec = add_phone(@, Field(tP2))]
          /\ ret' = Called("add_phone", <<i>>, "none", <<>>)
  /\ ncmds' = ncmds + 1
  /\ UNCHANGED <<notes, notes_file, uuids>>
  /\ UNCHANGED CallFrame

NoteIds == {tU0, tU1, tU2}

\* the state takes the notes and the file a NotesBook method left
CommitNotes(nb) == notes' = nb.notes /\ notes_file' = nb.file

\* notes_book.add_note(title, text, tags)
Call_add_note ==
  /\ ncmds < MaxCalls
  /\ uuids < MaxIds
  /\ \E text \in {tMilk, tHashErrand} :
       /\ CommitNotes(add_note([notes |-> notes, file |-> notes_file], UuidStr(uuids + 1),
                               tGroceries, text, SelectSeq(<<text>>, StartsWithHash)))
       /\ ret' = Called("add_note", <<tGroceries, text>>, "none", <<>>)
  /\ uuids' = uuids + 1
  /\ ncmds' = ncmds + 1
  /\ UNCHANGED address_book
  /\ UNCHANGED CallFrame

\* notes_book.edit_note(note_id, new_title, new_text)
Call_edit_note ==
  /\ ncmds < MaxCalls
  /\ \E note_id \in NoteIds, new_text \in {tMilk, JoinBlank(<<tMilk, <<"#">> \o tTea>>)} :
       IF edit_note_ok([notes |-> notes, file |-> notes_file], note_id)
         THEN /\ CommitNotes(edit_note([notes |-> notes, file |-> notes_file], note_id, tTea, new_text))
              /\ ret' = Called("edit_note", <<note_id, tTea, new_text>>, "none", <<>>)
         ELSE /\ UNCHANGED <<notes, notes_file>>
              /\ ret' = Called("edit_note", <<note_id, tTea, new_text>>, "KeyError", <<>>)
  /\ ncmds' = ncmds + 1
  /\ UNCHANGED <<address_book, uuids>>
  /\ UNCHANGED CallFrame

\* notes_book.delete_note(note_id)
Call_delete_note ==
  /\ ncmds < MaxCalls
  /\ \E note_id \in NoteIds :
       /\ CommitNotes(delete_note([notes |-> notes, file |-> notes_file], note_id))
       /\ ret' = Called("delete_note", <<note_id>>, "none", <<>>)
  /\ ncmds' = ncmds + 1
  /\ UNCHANGED <<address_book, uuids>>
  /\ UNCHANGED CallFrame

\* notes_book.search_notes(keyword), notes_book.find_notes_with_same_tags(tag)
\* and notes_book.display_notes()
Call_read_notes ==
  /\ ncmds < MaxCalls
  /\ \/ \E keyword \in {tMilk, tTea} :
          ret' = Called("search_notes", <<keyword>>, "none",
                        search_notes([notes |-> notes, file |-> notes_file], keyword))
     \/ \E tag \in {tErrand, tTea} :
          ret' = IF tagged_notes([notes |-> notes, file |-> notes_file], tag) # <<>>
                   THEN Called("find_notes_with_same_tags", <<tag>>, "none", <<>>)
                   ELSE Called("find_notes_with_same_tags", <<tag>>, "ValueError", <<>>)
     \/ ret' = IF notes # <<>>
                 THEN Called("display_notes", <<>>, "none", <<>>)
                 ELSE Called("display_notes", <<>>, "ValueError", <<>>)
  /\ ncmds' = ncmds + 1
  /\ UNCHANGED <<address_book, notes, notes_file, uuids>>
  /\ UNCHANGED CallFrame

NextCalls ==
  \/ Call_add_record
  \/ Call_delete
  \/ Call_find_by_name
  \/ Call_get_upcoming_birthdays
  \/ Call_record_method
  \/ Call_add_note
  \/ Call_edit_note
  \/ Call_delete_note
  \/ Call_read_notes

SpecCalls == InitCalls /\ [][NextCalls]_vars

NextBirthdays ==
  \/ Call_add_birthday_record
  \/ Call_get_upcoming_birthdays

SpecBirthdays == InitBirthdays /\ [][NextBirthdays]_vars

\* ------------------------------------------------------ field constructors
\* Phone(value) and Email(value) called one at a time on strings put together
\* from parts; ret.value holds the instance made, when one is made.

\* the longest run of further digits tried after the first one
MaxRun == 16

RunOf(c, k) == [i \in 1..k |-> c]

PhoneInputs ==
  {<<>>, <<"+", "+">> \o RunOf("7", 10), <<"a">> \o RunOf("7", 10),
   RunOf("7", 10) \o <<"5", "\n">>, RunOf("7", 10) \o <<" ">>} \cup
  {pre \o <<first>> \o body \o suf :
     pre \in {<<>>, <<"+">>, <<" ">>},
     first \in {"1", "0", chArabicThree},
     body \in {RunOf("7", 8) \o <<"x">>} \cup
              {RunOf(d, k) : d \in {"7", chArabicThree}, k \in {8, 9, 14, 15, MaxRun}},
     suf \in {<<>>, <<"\n">>, <<"\n", "\n">>}}

EmailInputs ==
  {<<"a", "@", "@", "b", ".", "c", "o">>, <<"a", " ", "b", "@", "b", ".", "c", "o">>,
   <<"a", "@", "b", ".", "c", "o", "\n", "\n">>, <<"a", "@", "b", ".", chEAcute>>,
   <<"a", "@", "b", "+", ".", "c", "o">>, <<"a", "@", "b", ".", ".", "c", "o">>,
   <<"a", "@", "b", ".", "c", " ", "o">>} \cup
  {local \o at \o domain \o dot \o suffix \o suf :
     local \in {<<>>, <<"a", "_", "b">>, <<"A", ".", "b", "+", "1", "-">>, <<chEAcute>>},
     at \in {<<>>, <<"@">>},
     domain \in {<<>>, <<"b", "-", "9">>, <<"b", "_", "c">>, <<chArabicThree>>},
     dot \in {<<>>, <<".">>},
     suffix \in {<<>>, <<"c", "_", "o">>, <<"c", "o", ".", "u", "k">>,
                 <<"c", "-", "O", "2">>},
     suf \in {<<>>, <<"\n">>}}

InitFields ==
  /\ address_book = <<>>
  /\ notes_file = NoFile
  /\ today = CliToday
  /\ InitFrame

\* Phone(value)
Call_Phone ==
  /\ ncmds < MaxCalls
  /\ \E value \in PhoneInputs :
       ret' = IF Phone_ok(value)
                THEN Called("Phone", <<value>>, "none", <<Field(value)>>)
                ELSE Called("Phone", <<value>>, "ValueError", <<>>)
  /\ ncmds' = ncmds + 1
  /\ UNCHANGED <<address_book, notes, notes_file, uuids>>
  /\ UNCHANGED CallFrame

\* Email(value)
Call_Email ==
  /\ ncmds < MaxCalls
  /\ \E value \in EmailInputs :
       ret' = IF Email_ok(value)
                THEN Called("Email", <<value>>, "none", <<Field(value)>>)
                ELSE Called("Email", <<value>>, "ValueError", <<>>)
  /\ ncmds' = ncmds + 1
  /\ UNCHANGED <<address_book, notes, notes_file, uuids>>
  /\ UNCHANGED CallFrame

NextFields ==
  \/ Call_Phone
  \/ Call_Email

SpecFields == InitFields /\ [][NextFields]_vars

\* ================================================================== claims
\* a step of main that ran handle_command
HandleStep == pc = "handle" /\ pc' # "handle"

\* the texts input_error prints
InputErrorTexts ==
  {"Error: Incorrect command.", "Error: Incorrect arguments.", "Error: Contact not found.",
   "Error: Index out of range.", "An unexpected error occurred:"}

\* the messages say that the command failed
FailureReported(o) ==
  \E i \in 1..Len(o) : o[i].level = "error" \/ o[i].key \in InputErrorTexts

\* an argument of the command fails the validation of its field class
ValidationFails(c, a) ==
  \/ c = cmd_add /\ Len(a) = 2 /\ (~Name_ok(a[1]) \/ ~Phone_ok(a[2]))
  \/ c = cmd_add_phone /\ Len(a) >= 2 /\ (~Name_ok(a[1]) \/ ~Phone_ok(a[2]))
  \/ c = cmd_edit_phone /\ Len(a) = 3
       /\ (~Name_ok(a[1]) \/ ~Phone_ok(a[2]) \/ ~Phone_ok(a[3]))
  \/ c = cmd_add_email /\ Len(a) >= 2 /\ (~Name_ok(a[1]) \/ ~Email_ok(a[2]))
  \/ c = cmd_edit_email /\ Len(a) = 3
       /\ (~Name_ok(a[1]) \/ ~Email_ok(a[2]) \/ ~Email_ok(a[3]))
  \/ c \in {cmd_add_birthday, cmd_edit_birthday} /\ Len(a) >= 2
       /\ (~Name_ok(a[1]) \/ ~Birthday_ok(a[2]))

\* C1: a contact command whose argument fails field validation is reported as
\* failed and leaves the contact store exactly as it was.
C1_FailedValidationKeepsStore ==
  [][(HandleStep /\ ValidationFails(command, args))
       => (address_book' = address_book /\ FailureReported(out'))]_vars

\* the number of arguments the usage of a command gives
FixedCount(c) ==
  CASE c \in {cmd_delete, cmd_show_phone, cmd_birthdays, cmd_delete_note, cmd_find_tag_note} -> 1
    [] c \in {cmd_add, cmd_add_phone, cmd_add_email, cmd_add_birthday, cmd_edit_birthday} -> 2
    [] c \in {cmd_edit_phone, cmd_edit_email} -> 3
    [] OTHER -> 0 - 1

\* C2: a command with a fixed argument count, given any other number of
\* arguments, reports incorrect_arguments and leaves both stores unchanged.
C2_WrongCountIsRejected ==
  [][(HandleStep /\ FixedCount(command) >= 0 /\ Len(args) # FixedCount(command))
       => /\ out' = <<[level |-> "error", key |-> "incorrect_arguments", data |-> <<>>]>>
          /\ address_book' = address_book
          /\ notes' = notes]_vars

\* how many entries of a phone list have the value
CountValue(list, v) == Cardinality({i \in 1..Len(list) : list[i].value = v})

\* the phones of the first record named n, <<>> when there is none
PhonesNamed(data, n) ==
  IF \E i \in 1..Len(data) : data[i].rec.fields["name"].value = n
    THEN PhonesOf(data[CHOOSE i \in 1..Len(data) :
                         /\ data[i].rec.fields["name"].value = n
                         /\ \A j \in 1..(i - 1) : data[j].rec.fields["name"].value # n].rec)
    ELSE <<>>

\* add or add-phone is given a phone the named contact already holds
AddsHeldPhone ==
  /\ command \in {cmd_add, cmd_add_phone}
  /\ Len(args) = 2
  /\ CountValue(PhonesNamed(address_book, args[1]), args[2]) >= 1

\* C3: add-phone N P, and add N P for an existing N, when N already holds P:
\* the duplicate is reported, the store is unchanged, and a list that held P
\* once still holds it once.
C3_DuplicatePhoneRejected ==
  [][(HandleStep /\ AddsHeldPhone)
       => /\ \E i \in 1..Len(out') : out'[i].key = "contact_exists"
          /\ address_book' = address_book
          /\ (CountValue(PhonesNamed(address_book, args[1]), args[2]) = 1
                => CountValue(PhonesNamed(address_book', args[1]), args[2]) = 1)]_vars

\* C3 witness: add-phone of a held phone was rejected and the list holds it once
C3_Witness ==
  /\ pc = "save"
  /\ command = cmd_add_phone
  /\ Len(args) = 2
  /\ \E i \in 1..Len(out) : out[i].key = "contact_exists"
  /\ CountValue(PhonesNamed(address_book, args[1]), args[2]) = 1

\* the entries that were there, in their order, but for the key
WithoutKey(data, k) == LET Keep(e) == e.key # k IN SelectSeq(data, Keep)

\* C4: AddressBook.delete of an id the store does not hold raises KeyError and
\* leaves the store unchanged; of an id it holds, it removes the entry of that
\* id and no other.
C4_DeleteById ==
  [][(ret'.op = "delete" /\ ncmds' = ncmds + 1)
       => IF \E i \in 1..Len(address_book) : address_book[i].key = ret'.arg[1]
            THEN /\ ret'.raised = "none"
                 /\ Len(address_book') = Len(address_book) - 1
                 /\ \A i \in 1..Len(address_book') : address_book'[i].key # ret'.arg[1]
                 /\ address_book' = WithoutKey(address_book, ret'.arg[1])
            ELSE /\ ret'.raised = "KeyError"
                 /\ address_book' = address_book]_vars

\* C4 witness: a delete of an absent id raised KeyError on a store with entries
C4_Witness ==
  /\ ret.op = "delete"
  /\ ret.raised = "KeyError"
  /\ address_book # <<>>
  /\ \A i \in 1..Len(address_book) : address_book[i].key # ret.arg[1]

\* the first date from t on that has the month and the day of b
NextOccurrence(b, t) ==
  LET years == {y \in t.year..(t.year + 8) :
                  /\ ValidDate(y, b.month, b.day)
                  /\ ToOrdinal(Date(y, b.month, b.day)) >= ToOrdinal(t)}
  IN Date(CHOOSE y \in years : \A z \in years : y <= z, b.month, b.day)

\* the names of the records whose birthday occurs within w days from t
NamesDueWithin(data, t, w) ==
  {data[i].rec.fields["name"].value :
     i \in {j \in 1..Len(data) :
              /\ "birthday" \in DOMAIN data[j].rec.fields
              /\ ToOrdinal(NextOccurrence(Strptime(data[j].rec.fields["birthday"].value), t))
                   - ToOrdinal(t) \in 0..w}}

\* the names the upcoming_birthdays messages show
NamesShown(o) == {o[i].data[1] : i \in {j \in 1..Len(o) : o[j].key = "upcoming_birthdays"}}

\* C5: the upcoming-birthday query with the window w reports a record if and
\* only if its birthday occurs within 0..w days from today; records without a
\* birthday never appear.
C5_WindowHonoured ==
  (/\ pc = "save"
   /\ command = cmd_birthdays
   /\ Len(args) = 1
   /\ Int_ok(args[1])
   /\ Int_val(args[1]) >= 0)
    => NamesShown(out) = NamesDueWithin(address_book, today, Int_val(args[1]))

\* the entries of the store that have a birthday within 0..7 days of its next
\* occurrence
DueEntries(data, t) ==
  LET Due(e) ==
        /\ "birthday" \in DOMAIN e.rec.fields
        /\ ToOrdinal(NextOccurrence(Strptime(e.rec.fields["birthday"].value), t))
             - ToOrdinal(t) \in 0..UpcomingWindow
  IN SelectSeq(data, Due)

\* the Monday after a Saturday or a Sunday, the day itself otherwise
WorkingDay(d) ==
  CASE Weekday(d) = 5 -> AddDays(d, 2)
    [] Weekday(d) = 6 -> AddDays(d, 1)
    [] OTHER -> d

\* C6: every reported congratulation date is the occurrence itself when that
\* is Monday to Friday and the following Monday when it is a Saturday (+2) or a
\* Sunday (+1); no reported date is a Saturday or a Sunday.
C6_CongratulationOnWorkingDay ==
  (ret.op = "get_upcoming_birthdays" /\ ret.raised = "none")
    => /\ Len(ret.value) = Len(DueEntries(address_book, today))
       /\ \A i \in 1..Len(ret.value) :
            /\ Strptime_ok(ret.value[i].congratulation_date)
            /\ Weekday(Strptime(ret.value[i].congratulation_date)) \notin {5, 6}
            /\ Strptime(ret.value[i].congratulation_date)
                 = WorkingDay(NextOccurrence(
                     Strptime(DueEntries(address_book, today)[i].rec.fields["birthday"].value),
                     today))

\* C6 witness: on Wednesday 12.03.2025 the birthday of Saturday 15.03 (today+3)
\* is reported for Monday 17.03.2025 (today+5)
C6_Witness ==
  /\ ret.op = "get_upcoming_birthdays"
  /\ ret.raised = "none"
  /\ today = Date(2025, 3, 12)
  /\ \E i \in 1..Len(ret.value) :
       /\ ret.value[i].congratulation_date = Strftime(AddDays(today, 5))
       /\ \E j \in 1..Len(address_book) :
            /\ "birthday" \in DOMAIN address_book[j].rec.fields
            /\ address_book[j].rec.fields["birthday"].value = tD1

\* this year's date of the birthday when it is today or later, next year's
\* otherwise
ThisOrNextYear(b, t) ==
  IF ToOrdinal(Date(t.year, b.month, b.day)) >= ToOrdinal(t)
    THEN Date(t.year, b.month, b.day)
    ELSE Date(t.year + 1, b.month, b.day)

\* the names, in the order of the store, of the records whose birthday is 0..7
\* days ahead by ThisOrNextYear
NamesAhead(data, t) ==
  LET Ahead(e) ==
        /\ "birthday" \in DOMAIN e.rec.fields
        /\ ToOrdinal(ThisOrNextYear(Strptime(e.rec.fields["birthday"].value), t))
             - ToOrdinal(t) \in 0..UpcomingWindow
      due == SelectSeq(data, Ahead)
  IN [i \in 1..Len(due) |-> due[i].rec.fields["name"].value]

\* C7: the occurrence used is this year's date when that is today or later and
\* next year's otherwise: the day difference is never negative, a birthday of
\* today has difference 0 and is reported, and a January birthday is reported
\* from late December.
C7_OccurrenceRollsOver ==
  (ret.op = "get_upcoming_birthdays" /\ ret.raised = "none")
    => /\ \A i \in 1..Len(ret.value) :
            ToOrdinal(Strptime(ret.value[i].congratulation_date)) >= ToOrdinal(today)
       /\ [i \in 1..Len(ret.value) |-> ret.value[i].name] = NamesAhead(address_book, today)

\* C7 witness: on 28.12.2024 the birthday of 01.01 is reported for 01.01.2025
C7_Witness ==
  /\ ret.op = "get_upcoming_birthdays"
  /\ ret.raised = "none"
  /\ today = Date(2024, 12, 28)
  /\ \E i \in 1..Len(ret.value) :
       ret.value[i].congratulation_date = Strftime(Date(2025, 1, 1))

\* C8: whenever the loop is about to read a command, the persisted contacts
\* are the in-memory contact store, whatever the command before did.
C8_ContactsSavedBeforeNextRead ==
  pc = "prompt" => disk = save_contacts(address_book)

\* C8 witness: a command added a contact and the loop is back at the prompt
C8_Witness ==
  /\ pc = "prompt"
  /\ ncmds > 0
  /\ \E i \in 1..Len(out) : out[i].key = "contact_added"
  /\ disk # <<>>

\* C9: the notes file holds the in-memory list of notes: after add_note, a
\* successful edit_note and delete_note its content is that list, and after a
\* call that returned or raised the two never differ.
C9_NotesFileMatchesNotes ==
  /\ load_notes(notes_file) = notes
  /\ (ret.op \in {"add_note", "delete_note"} \/ (ret.op = "edit_note" /\ ret.raised = "none"))
       => notes_file = [exists |-> TRUE, content |-> notes]

\* C9 witness: add_note appended to a stored note and the file holds both
C9_Witness ==
  /\ ret.op = "add_note"
  /\ Len(notes) = 2
  /\ notes_file.exists
  /\ notes_file.content = notes

\* C10: handle_command never lets an exception reach the loop: after it the
\* loop goes on to save and to the next prompt, with a message shown.
C10_NothingPropagates ==
  [][HandleStep => (propagated' = "none" /\ pc' = "save" /\ out' # <<>>)]_vars

\* C10 witness: a TypeError raised inside a handler was turned into a message
C10_Witness ==
  /\ pc = "save"
  /\ propagated = "none"
  /\ command = cmd_birthdays
  /\ \E i \in 1..Len(out) : out[i].key = "Error: Incorrect command."

\* the commands of the notes book
NoteCommands ==
  {cmd_add_note, cmd_edit_note, cmd_delete_note, cmd_find_tag_note, cmd_search_notes,
   cmd_display_notes}

\* the handler met a store without the attribute it uses
WrongStoreReported(o) ==
  \E i \in 1..Len(o) : o[i].key = "An unexpected error occurred:"

\* C11: a registered command is handed the note store if and only if its name
\* contains "note": the six note commands run against the note store and every
\* other command, exit and close among them, against the contact store, so no
\* handler meets the wrong store.
C11_StoreByCommandName ==
  [][(HandleStep /\ command \in command_registry)
       => /\ (Ctx.book_type = "notes") <=> (command \in NoteCommands)
          /\ (Ctx.book_type = "contacts") <=> (command \notin NoteCommands)
          /\ ~WrongStoreReported(out')
          /\ (command \in {cmd_exit, cmd_close} => disk' = save_contacts(address_book))]_vars

\* C11 witness: add-note was handed the note store and added its note
C11_Witness ==
  /\ pc = "save"
  /\ command = cmd_add_note
  /\ notes # <<>>
  /\ \E i \in 1..Len(out) : out[i].key = "note_added"

\* C12: a command name outside the registry runs no handler and changes
\* neither store: close matches are suggested or incorrect_command is
\* reported, and the loop goes on.
C12_UnknownCommandChangesNothing ==
  [][((HandleStep \/ (pc = "prompt" /\ ncmds' = ncmds + 1)) /\ command' \notin command_registry)
       => /\ address_book' = address_book
          /\ notes' = notes
          /\ notes_file' = notes_file
          /\ uuids' = uuids
          /\ language' = language
          /\ exit_command_flag' = exit_command_flag
          /\ pc' \in {"prompt", "handle", "save"}
          /\ pc' = "prompt" =>
               out' = <<[level |-> "print", key |-> "did_you_mean", data |-> <<>>]>>
          /\ pc' = "save" =>
               out' = <<[level |-> "error", key |-> "incorrect_command", data |-> <<command>>]>>]_vars

\* C12 witness: an unknown name without close matches was reported
C12_Witness ==
  /\ pc = "save"
  /\ command = tXyz
  /\ out = <<[level |-> "error", key |-> "incorrect_command", data |-> <<tXyz>>]>>

\* the text of the note that the line add-note Groceries "buy milk #errand"
\* adds
QuotedText == JoinBlank(<<tQuoteBuy, tMilk, tHashErrandQuote>>)

\* C13: after the line add-note Groceries "buy milk #errand" the line
\* find-tag-note errand lists that note and reports no error.
C13_AddNoteThenFindByTag ==
  (/\ pc = "save"
   /\ command = cmd_find_tag_note
   /\ args = <<tErrand>>
   /\ \E i \in 1..Len(notes) : notes[i].title = tGroceries /\ notes[i].text = QuotedText)
    => /\ \E i \in 1..Len(notes), j \in 1..Len(out) :
            /\ notes[i].title = tGroceries
            /\ notes[i].text = QuotedText
            /\ out[j] = [level |-> "print", key |-> "note",
                         data |-> <<notes[i].id, notes[i].title, notes[i].text>>]
       /\ ~FailureReported(out)

\* the notes whose tag list holds the whole tag "#" followed by tag
NotesTagged(list, tag) ==
  LET Holds(note) == \E k \in 1..Len(note.tags) : note.tags[k] = <<"#">> \o tag
  IN SelectSeq(list, Holds)

\* the notes the messages list
NotesListed(o) ==
  LET IsNote(m) == m.key = "note" IN
  [i \in 1..Len(SelectSeq(o, IsNote)) |-> SelectSeq(o, IsNote)[i].data]

\* C14: find_notes_with_same_tags hands its caller the notes whose tag list
\* holds "#" + tag, so that find-tag-note lists them with no error reported;
\* when no note matches, the not-found error is reported.
C14_FindByTagListsMatches ==
  (pc = "save" /\ command = cmd_find_tag_note /\ Len(args) = 1)
    => IF NotesTagged(notes, args[1]) = <<>>
         THEN FailureReported(out)
         ELSE /\ NotesListed(out)
                   = [i \in 1..Len(NotesTagged(notes, args[1])) |->
                        <<NotesTagged(notes, args[1])[i].id,
                          NotesTagged(notes, args[1])[i].title,
                          NotesTagged(notes, args[1])[i].text>>]
              /\ ~FailureReported(out)


\* the positions of the records whose name is n
RecordsNamed(data, n) ==
  {i \in 1..Len(data) : data[i].rec.fields["name"].value = n}

\* C15: the delete command with one name that no record has reports
\* contact_not_found, lets no exception out of the handler and leaves the
\* contact store as it was; with a name a record has, it removes the first
\* record of that name, by its id, and no other record.
C15_DeleteByName ==
  [][(HandleStep /\ command = cmd_delete /\ Len(args) = 1)
       => LET hit == RecordsNamed(address_book, args[1]) IN
          IF hit = {}
            THEN /\ out' = <<[level |-> "error", key |-> "contact_not_found",
                              data |-> <<args[1]>>]>>
                 /\ propagated' = "none"
                 /\ address_book' = address_book
            ELSE LET first == CHOOSE i \in hit : \A j \in hit : i <= j IN
                 /\ propagated' = "none"
                 /\ Len(address_book') = Len(address_book) - 1
                 /\ \A i \in 1..Len(address_book') :
                      address_book'[i] =
                        address_book[IF i < first THEN i ELSE i + 1]
                 /\ \A i \in 1..Len(address_book') :
                      address_book'[i].key # address_book[first].key]_vars

\* delete of a name that no record of a store of one record has was refused
C15_WitnessNotFound ==
  /\ pc = "save"
  /\ command = cmd_delete
  /\ Len(args) = 1
  /\ Len(address_book) = 1
  /\ RecordsNamed(address_book, args[1]) = {}
  /\ \E i \in 1..Len(out) : out[i].key = "contact_not_found"

\* delete took the second record of a store of two and kept the first
C15_Witness ==
  /\ pc = "save"
  /\ command = cmd_delete
  /\ args = <<tAlice>>
  /\ Len(address_book) = 1
  /\ address_book[1].rec.fields["name"].value = tBob
  /\ uuids = 2
  /\ \E i \in 1..Len(out) : out[i].key = "contact_deleted"


ExitNames == {cmd_exit, cmd_close}

\* what a step of main does about leaving the loop
ExitStep ==
  /\ (HandleStep /\ command \in ExitNames)
       => /\ exit_command_flag'
          /\ disk' = save_contacts(address_book)
          /\ address_book' = address_book
          /\ propagated' = "none"
  /\ exit_command_flag
       => /\ exit_command_flag'
          /\ UNCHANGED <<command, args, ncmds, address_book, notes,
                         notes_file, out>>
          /\ pc' \in {"prompt", "done"}
          /\ disk' = save_contacts(address_book)
  /\ (pc = "prompt" /\ ~exit_command_flag /\ ncmds' = ncmds)
       => pc' = "done"
  /\ pc = "done" => UNCHANGED vars

\* C16: a dispatched exit or close saves the contacts and sets the exit flag;
\* with the flag set no line is read or executed any more; the loop left, nothing
\* runs; a step at the prompt that reads no line (EOFError, KeyboardInterrupt)
\* leaves the loop; and every run in which exit or close is dispatched reaches
\* the end of the loop.
C16_ExitTerminates ==
  /\ [][ExitStep]_vars
  /\ (pc = "handle" /\ command \in ExitNames) ~> (pc = "done")
  /\ exit_command_flag ~> (pc = "done")

\* close after an add: the loop is left with the flag set and both records saved
C16_Witness ==
  /\ pc = "done"
  /\ exit_command_flag
  /\ command = cmd_close
  /\ ncmds = 2
  /\ Len(address_book) = 2
  /\ disk = save_contacts(address_book)








\* the pattern ^\+?[1-9]\d{9,14}$ read position by position: an optional "+",
\* a digit from 1 to 9, then 9 to 14 more decimal digits, up to the end of the
\* string or to one final newline
PhonePattern(s) ==
  \E plus \in {0, 1}, n \in 10..15 :
    /\ plus = 1 => (Len(s) >= 1 /\ s[1] = "+")
    /\ Len(s) = plus + n \/ (Len(s) = plus + n + 1 /\ s[Len(s)] = "\n")
    /\ s[plus + 1] \in {"1", "2", "3", "4", "5", "6", "7", "8", "9"}
    /\ \A i \in (plus + 2)..(plus + n) : s[i] \in DecimalDigits

\* C17: for every string s, Phone(s) returns an instance exactly when s matches
\* the phone pattern, and the instance wraps s itself; for every other s it
\* raises the validation error (ValueError) and no instance is made.
C17_PhoneExactlyPattern ==
  ret.op = "Phone"
    => LET s == ret.arg[1] IN
       IF PhonePattern(s)
         THEN ret.raised = "none" /\ ret.value = <<[value |-> s]>>
         ELSE ret.raised = "ValueError" /\ ret.value = <<>>

\* "+" and fifteen digits were made a Phone
C17_Witness ==
  /\ ret.op = "Phone"
  /\ ret.raised = "none"
  /\ Len(ret.arg[1]) = 16
  /\ ret.arg[1][1] = "+"
  /\ AllIn(Tail(ret.arg[1]), Digits)
  /\ ret.value[1].value = ret.arg[1]

\* a pattern match that "$" makes before a final newline: the instance wraps
\* the string with its newline
C17_NewlineKept ==
  /\ ret.op = "Phone"
  /\ ret.raised = "none"
  /\ ret.arg[1][Len(ret.arg[1])] = "\n"
  /\ ret.value[1].value = ret.arg[1]




\* what \w matches in a str pattern: letters, decimal digits and "_", those
\* outside ASCII included
WordChars == Lower \cup Upper \cup Digits \cup {"_", chArabicThree, chEAcute}

\* s, up to its end or to one final newline, is local "@" label "." suffix with
\* one or more characters of the three classes
EmailShaped(s, local, label, suffix) ==
  \E n \in {m \in {Len(s) - 1, Len(s)} : m = Len(s) \/ (Len(s) > 0 /\ s[Len(s)] = "\n")} :
    \E i \in 2..n, j \in 3..n :
      /\ j > i + 1
      /\ j < n
      /\ s[i] = "@"
      /\ s[j] = "."
      /\ \A k \in 1..(i - 1) : s[k] \in local
      /\ \A k \in (i + 1)..(j - 1) : s[k] \in label
      /\ \A k \in (j + 1)..n : s[k] \in suffix

\* the pattern ^[\w.+-]+@[\w-]+\.[\w.-]+$
WordEmailPattern(s) ==
  EmailShaped(s, WordChars \cup {".", "+", "-"}, WordChars \cup {"-"},
              WordChars \cup {".", "-"})

\* the pattern with ASCII letters and digits for \w, and "_" in the local
\* part only
AsciiEmailPattern(s) ==
  LET alnum == Lower \cup Upper \cup Digits IN
  EmailShaped(s, alnum \cup {"_", ".", "+", "-"}, alnum \cup {"-"},
              alnum \cup {".", "-"})

\* C18 as stated: for every string s, Email(s) returns an instance wrapping s
\* exactly when s matches ^[\w.+-]+@[\w-]+\.[\w.-]+$, and raises the
\* validation error otherwise.
C18_EmailExactlyWordPattern ==
  ret.op = "Email"
    => LET s == ret.arg[1] IN
       IF WordEmailPattern(s)
         THEN ret.raised = "none" /\ ret.value = <<[value |-> s]>>
         ELSE ret.raised = "ValueError" /\ ret.value = <<>>

\* C18 amended: for every string s, Email(s) returns an instance wrapping s
\* exactly when s matches ^[a-zA-Z0-9_.+-]+@[a-zA-Z0-9-]+\.[a-zA-Z0-9-.]+$, and
\* raises the validation error (ValueError) otherwise.
C18_EmailExactlyAsciiPattern ==
  ret.op = "Email"
    => LET s == ret.arg[1] IN
       IF AsciiEmailPattern(s)
         THEN ret.raised = "none" /\ ret.value = <<[value |-> s]>>
         ELSE ret.raised = "ValueError" /\ ret.value = <<>>

\* an address with "_" in its local part was made an Email
C18_Witness ==
  /\ ret.op = "Email"
  /\ ret.raised = "none"
  /\ ret.arg[1] = <<"a", "_", "b", "@", "b", "-", "9", ".", "c", "o", ".", "u", "k">>
  /\ ret.value[1].value = ret.arg[1]

\* an address the \w pattern matches was refused for the "_" of its domain
C18_UnderscoreRefused ==
  /\ ret.op = "Email"
  /\ ret.raised = "ValueError"
  /\ WordEmailPattern(ret.arg[1])
  /\ AllIn(ret.arg[1], EmailLocal \cup {"@"})






\* the positions of the notes with the id
NotesWithId(list, id) == {i \in 1..Len(list) : list[i].id = id}

\* C19: NotesBook.edit_note with an id no note has raises KeyError, leaves the
\* note list as it was and writes nothing to the file; with an id a note has,
\* it gives the first note of that id exactly the title and the text passed,
\* leaves its id and tags and every other note alone, and saves.
C19_EditNoteById ==
  [][(ret'.op = "edit_note" /\ ncmds' = ncmds + 1)
       => LET hit == NotesWithId(notes, ret'.arg[1]) IN
          IF hit = {}
            THEN /\ ret'.raised = "KeyError"
                 /\ notes' = notes
                 /\ notes_file' = notes_file
            ELSE LET first == CHOOSE i \in hit : \A j \in hit : i <= j IN
                 /\ ret'.raised = "none"
                 /\ Len(notes') = Len(notes)
                 /\ notes'[first] = [id |-> ret'.arg[1], title |-> ret'.arg[2],
                                     text |-> ret'.arg[3], tags |-> notes[first].tags]
                 /\ \A i \in 1..Len(notes) : i # first => notes'[i] = notes[i]
                 /\ notes_file' = [exists |-> TRUE, content |-> notes']]_vars

\* edit_note rewrote the stored note and left the note added after it alone
C19_Witness ==
  /\ ret.op = "edit_note"
  /\ ret.raised = "none"
  /\ Len(notes) = 2
  /\ notes[1] = [ErrandNote EXCEPT !.title = ret.arg[2], !.text = ret.arg[3]]
  /\ notes[1] # ErrandNote
  /\ notes[2].id # ret.arg[1]

\* edit_note of an id that none of the stored notes has was refused
C19_WitnessAbsent ==
  /\ ret.op = "edit_note"
  /\ ret.raised = "KeyError"
  /\ notes # <<>>
  /\ NotesWithId(notes, ret.arg[1]) = {}

\* the notes of list whose id is not id, in the order of list
RECURSIVE NotesWithoutId(_, _)
NotesWithoutId(list, id) ==
  IF list = <<>> THEN <<>>
  ELSE (IF Head(list).id = id THEN <<>> ELSE <<Head(list)>>)
         \o NotesWithoutId(Tail(list), id)

\* C20: NotesBook.delete_note removes every note with the id and keeps the
\* others in their order; with no such note the list is unchanged; in both
\* cases nothing is raised and nothing is printed.
C20_DeleteNoteById ==
  [][(ret'.op = "delete_note" /\ ncmds' = ncmds + 1)
       => /\ ret'.raised = "none"
          /\ out' = out
          /\ notes' = NotesWithoutId(notes, ret'.arg[1])
          /\ NotesWithId(notes', ret'.arg[1]) = {}
          /\ NotesWithId(notes, ret'.arg[1]) = {} => notes' = notes]_vars

\* delete_note took both notes stored under one id and kept the third
C20_Witness ==
  /\ ret.op = "delete_note"
  /\ ret.arg = <<tU0>>
  /\ Len(notes) = 1
  /\ notes[1].id # tU0
  /\ Len(notes_file.content) = 1

\* delete_note of an id that none of the stored notes has changed nothing
C20_WitnessAbsent ==
  /\ ret.op = "delete_note"
  /\ ret.raised = "none"
  /\ Len(notes) = 2
  /\ NotesWithId(notes, ret.arg[1]) = {}


\* the wrapped strings of the phones of a record
PhoneValues(rec) ==
  IF "phones" \in DOMAIN rec.fields
    THEN [i \in 1..Len(rec.fields["phones"]) |-> rec.fields["phones"][i].value]
    ELSE <<>>

\* C21: add with a name the store has and a valid phone the record of that
\* name does not hold appends the phone to that record and makes no second
\* record: the store keeps its length, the record keeps its id and its other
\* fields, and every other record is unchanged.
C21_AddMergesPhone ==
  [][(/\ HandleStep
      /\ command = cmd_add
      /\ Len(args) = 2
      /\ RecordsNamed(address_book, args[1]) # {}
      /\ PhonePattern(args[2]))
       => LET hit == RecordsNamed(address_book, args[1])
              first == CHOOSE i \in hit : \A j \in hit : i <= j
              old == address_book[first].rec
              new == address_book'[first].rec
          IN (\A i \in 1..Len(PhoneValues(old)) : PhoneValues(old)[i] # args[2])
               => /\ Len(address_book') = Len(address_book)
                  /\ \A i \in 1..Len(address_book) :
                       i # first => address_book'[i] = address_book[i]
                  /\ address_book'[first].key = address_book[first].key
                  /\ new.id = old.id
                  /\ DOMAIN new.fields = DOMAIN old.fields \cup {"phones"}
                  /\ \A k \in DOMAIN old.fields \ {"phones"} : new.fields[k] = old.fields[k]
                  /\ PhoneValues(new) = Append(PhoneValues(old), args[2])
                  /\ uuids' = uuids
                  /\ propagated' = "none"]_vars

\* add gave a second phone to the one record of the store, which kept its
\* email and birthday
C21_Witness ==
  /\ pc = "save"
  /\ command = cmd_add
  /\ Len(args) = 2
  /\ Len(address_book) = 1
  /\ Len(PhoneValues(address_book[1].rec)) = 2
  /\ PhoneValues(address_book[1].rec)[2] = args[2]
  /\ "emails" \in DOMAIN address_book[1].rec.fields
  /\ \E i \in 1..Len(out) : out[i].key = "phone_added"




\* C22: every record of the store has the key "name" in its field mapping,
\* bound to one Name value and not to a list, after construction and after
\* any calls of add_field, edit_field, remove_field and add_phone.
C22_NameAlwaysPresent ==
  \A i \in 1..Len(address_book) :
    LET fields == address_book[i].rec.fields IN
    /\ "name" \in DOMAIN fields
    /\ DOMAIN fields["name"] = {"value"}
    /\ Name_ok(fields["name"].value)


\* the phones a phone_info text lists: its parts between "; "
ShownPhones(text) ==
  LET parts == SplitOn(text, ";") IN
  [i \in 1..Len(parts) |->
     IF i = 1 THEN parts[i]
     ELSE IF parts[i] # <<>> /\ parts[i][1] = " " THEN Tail(parts[i]) ELSE <<"?">> \o parts[i]]

\* C23: add of a name the store does not have, with a valid phone, makes a
\* record of that name whose only phone is P; show-phone of a name whose
\* record has phones reports exactly the phones of the first record of that
\* name, in list order, and nothing else; so add N P then show-phone N
\* reports P.
C23_ShowPhoneAfterAdd ==
  [][/\ (/\ HandleStep
         /\ command = cmd_add
         /\ Len(args) = 2
         /\ RecordsNamed(address_book, args[1]) = {}
         /\ PhonePattern(args[2]))
          => /\ Len(address_book') = Len(address_book) + 1
             /\ SubSeq(address_book', 1, Len(address_book)) = address_book
             /\ RecordsNamed(address_book', args[1]) = {Len(address_book')}
             /\ PhoneValues(address_book'[Len(address_book')].rec) = <<args[2]>>
     /\ (/\ HandleStep
         /\ command = cmd_show_phone
         /\ Len(args) = 1
         /\ RecordsNamed(address_book, args[1]) # {})
          => LET hit == RecordsNamed(address_book, args[1])
                 first == CHOOSE i \in hit : \A j \in hit : i <= j
                 rec == address_book[first].rec
             IN /\ address_book' = address_book
                /\ "phones" \in DOMAIN rec.fields /\ PhoneValues(rec) # <<>>
                     => /\ Len(out') = 1
                        /\ out'[1].level = "info"
                        /\ out'[1].key = "phone_info"
                        /\ out'[1].data[1] = args[1]
                        /\ ShownPhones(out'[1].data[2]) = PhoneValues(rec)
                        /\ Len(PhoneValues(rec)) = 1 => out'[1].data[2] = PhoneValues(rec)[1]]_vars

\* add Alice +19876543210 on an empty store, then show-phone Alice
C23_Witness ==
  /\ pc = "save"
  /\ command = cmd_show_phone
  /\ args = <<tAlice>>
  /\ ncmds = 2
  /\ uuids = 1
  /\ Len(address_book) = 1
  /\ DOMAIN address_book[1].rec.fields = {"name", "phones"}
  /\ out = <<[level |-> "info", key |-> "phone_info", data |-> <<tAlice, tP1>>]>>

\* show-phone listed the two phones of a record in their order
C23_WitnessTwo ==
  /\ pc = "save"
  /\ command = cmd_show_phone
  /\ Len(out) = 1
  /\ out[1].key = "phone_info"
  /\ ShownPhones(out[1].data[2]) = <<tP1, tP2>>


\* what the claim compares of a store: under each key the id and the field
\* mapping of its record
StoredRecords(data) ==
  {[key |-> data[i].key, id |-> data[i].rec.id, fields |-> data[i].rec.fields] :
     i \in 1..Len(data)}

C25_NamesUnique ==
  \A i, j \in 1..Len(address_book) :
    address_book[i].rec.fields["name"].value = address_book[j].rec.fields["name"].value
      => i = j

\* add of a name the store already had was handled, after an add of another
\* name, and the store holds one record for each
C25_Witness ==
  /\ pc = "save"
  /\ command = cmd_add
  /\ ncmds = 2
  /\ Len(address_book) = 2
  /\ \E i \in 1..Len(out) : out[i].key \in {"phone_added", "contact_exists"}
  /\ Cardinality(RecordsNamed(address_book, args[1])) = 1


\* C26: no record's phone list holds the same value twice, whatever add,
\* add-phone and edit-phone commands were run.
C26_PhonesDistinct ==
  \A r \in 1..Len(address_book) :
    LET phones == PhoneValues(address_book[r].rec) IN
    \A i, j \in 1..Len(phones) : phones[i] = phones[j] => i = j


\* the messages hold an error report under one of the keys
ErrorSaid(o, keys) ==
  \E i \in 1..Len(o) : o[i].level = "error" /\ o[i].key \in keys

C27_WitnessMalformedOld ==
  /\ pc = "save"
  /\ command = cmd_edit_phone
  /\ Len(args) = 3
  /\ ~PhonePattern(args[2])
  /\ RecordsNamed(address_book, args[1]) # {}
  /\ ErrorSaid(out, {"phone_not_found"})

\* edit-phone with a malformed new phone for a held old one was refused
C27_WitnessMalformedNew ==
  /\ pc = "save"
  /\ command = cmd_edit_phone
  /\ Len(args) = 3
  /\ ~PhonePattern(args[3])
  /\ \E r \in 1..Len(address_book) :
       \E i \in 1..Len(PhoneValues(address_book[r].rec)) :
         PhoneValues(address_book[r].rec)[i] = args[2]
  /\ ErrorSaid(out, {"phone_not_found"})


\* C28: edit-birthday and edit-address for a stored contact that has no
\* birthday, respectively no address, report a not-found error and no
\* success, and leave the record without that field.
C28_EditAbsentFieldNotFound ==
  [][\A key \in {"birthday", "address"} :
       (/\ HandleStep
        /\ command = (IF key = "birthday" THEN cmd_edit_birthday ELSE cmd_edit_address)
        /\ Len(args) >= 2
        /\ (key = "birthday" => Birthday_ok(args[2]))
        /\ RecordsNamed(address_book, args[1]) # {}
        /\ LET hit == RecordsNamed(address_book, args[1])
               first == CHOOSE i \in hit : \A j \in hit : i <= j
           IN key \notin DOMAIN address_book[first].rec.fields)
         => /\ address_book' = address_book
            /\ \E i \in 1..Len(out') : out'[i].level = "error"
            /\ \A i \in 1..Len(out') : out'[i].level # "info"]_vars


\* edit-birthday reported an update on a record that has no birthday
C28_BirthdayUpdatedOnNone ==
  /\ pc = "save"
  /\ command = cmd_edit_birthday
  /\ \E i \in 1..Len(out) : out[i].key = "birthday_updated"
  /\ \E r \in 1..Len(address_book) :
       /\ address_book[r].rec.name.value = args[1]
       /\ "birthday" \notin DOMAIN address_book[r].rec.fields


\* the year a 29.02 birthday is moved to on the day t is a common year: the
\* year of t, or the year after it when 29.02 of a leap year of t has passed
Feb29Unplaceable(t) ==
  \/ ~IsLeap(t.year)
  \/ (t.month > 2 /\ ~IsLeap(t.year + 1))

\* the entries of the store whose birthday is a 29.02
Feb29Entries(data) ==
  {i \in 1..Len(data) :
     /\ "birthday" \in DOMAIN data[i].rec.fields
     /\ Strptime_ok(data[i].rec.fields["birthday"].value)
     /\ Strptime(data[i].rec.fields["birthday"].value).day = 29
     /\ Strptime(data[i].rec.fields["birthday"].value).month = 2}

\* C29: with a 29.02 birthday in the store and a common year to move it to,
\* get_upcoming_birthdays raises and returns nothing: no record of the store
\* is reported, whatever its birthday.
C29_Feb29RaisesForAll ==
  (/\ ret.op = "get_upcoming_birthdays"
   /\ Feb29Entries(address_book) # {}
   /\ Feb29Unplaceable(today))
    => /\ ret.raised # "none"
       /\ ret.value = <<>>
       /\ ret.arg = <<>> => ret.raised = "ValueError"

\* on 12.03.2025 the query raised although the second record's birthday of
\* 15.03 is three days ahead
C29_Witness ==
  /\ ret.op = "get_upcoming_birthdays"
  /\ ret.arg = <<>>
  /\ ret.raised = "ValueError"
  /\ today = Date(2025, 3, 12)
  /\ Feb29Entries(address_book) # {}
  /\ \E i \in 1..Len(address_book) :
       /\ "birthday" \in DOMAIN address_book[i].rec.fields
       /\ address_book[i].rec.fields["birthday"].value = tD1

\* at the end of the leap year 2024 the 29.02 has passed and the query raised
C29_WitnessRollOver ==
  /\ ret.op = "get_upcoming_birthdays"
  /\ ret.arg = <<>>
  /\ ret.raised = "ValueError"
  /\ today = Date(2024, 12, 28)
  /\ Feb29Entries(address_book) # {}

\* on 27.02 of the leap year 2024 the 29.02 birthday is reported
C29_Feb29InLeapYear ==
  /\ ret.op = "get_upcoming_birthdays"
  /\ ret.raised = "none"
  /\ today = Date(2024, 2, 27)
  /\ Feb29Entries(address_book) # {}
  /\ ret.value # <<>>


\* the ids and the tags of the notes, in the order of the list
IdsAndTags(list) == [i \in 1..Len(list) |-> <<list[i].id, list[i].tags>>]

\* C30: NotesBook.edit_note changes nothing but the title and the text of the
\* first note with the id: the ids and the tags of all notes stay as they were,
\* in number and in order, also when the new text holds other tags than the
\* note, and every note but that first one is the note it was.
C30_EditNoteFrame ==
  [][(ret'.op = "edit_note" /\ ncmds' = ncmds + 1)
       => /\ IdsAndTags(notes') = IdsAndTags(notes)
          /\ \A i \in 1..Len(notes) :
               (notes'[i] # notes[i])
                 => /\ notes[i].id = ret'.arg[1]
                    /\ \A j \in 1..(i - 1) : notes[j].id # ret'.arg[1]
                    /\ notes'[i] = [notes[i] EXCEPT !.title = ret'.arg[2], !.text = ret'.arg[3]]]_vars

\* edit_note gave the first of two notes under one id a text with the tag
\* #tea; the note keeps its tag #errand and the second note its title
C30_Witness ==
  /\ ret.op = "edit_note"
  /\ ret.raised = "none"
  /\ Len(notes) >= 2
  /\ notes[1].id = ret.arg[1]
  /\ notes[2].id = ret.arg[1]
  /\ notes[1].text = ret.arg[3]
  /\ SelectSeq(SplitBlank(notes[1].text), StartsWithHash) # <<>>
  /\ notes[1].tags = <<tHashErrand>>
  /\ notes[1].tags # SelectSeq(SplitBlank(notes[1].text), StartsWithHash)
  /\ notes[2].title # ret.arg[2]

====
